---- MODULE Spec2Model ----
(***************************************************************************)
(* Rhythm-engine core of funktrack: the song conductor (conductor.rs),     *)
(* the note scheduler and judgment systems (notes.rs, judgment.rs) and     *)
(* scoring (scoring.rs).                                                   *)
(*                                                                         *)
(* Fixed-point units used for the f64 quantities of the source:            *)
(*   time   : 1 unit  = 10 ms                                              *)
(*   beats  : 1 unit  = 1/100 beat (centibeat, "cb")                       *)
(*   slope, intercept : scaled by FixScale (1/1000 cb)                     *)
(***************************************************************************)
EXTENDS Integers, Sequences, FiniteSets, TLC

VARIABLES
    \* ---- SongConductor (conductor.rs:31-40) and what it reads ----
    current_beat, bpm, playing, time_samples, slope, intercept,
    timing_points, drift_frames,
    game_time,      \* Time<Real>::elapsed_secs_f64
    delta_secs,     \* Time::delta_secs of the frame
    clock,          \* raw reading of the kira clock, ticks + fraction
    clock_speed,    \* ClockSpeed::TicksPerMinute given to the clock
    audio_offset,   \* GameSettings::audio_offset_ms
    glitches,       \* number of irregular clock readings so far
    last_path,      \* which path of update_conductor the last update took
    drift_hist,     \* history: did each regression frame since the last
                    \* hard resync exceed the drift threshold (last two kept)
    \* ---- the Playing screen ----
    screen,         \* State<GameScreen>
    stage,          \* the system set of GameSet that runs next in this frame
    queue,          \* NoteQueue: notes, next_index, look_ahead_beats, travel_beats
    player,         \* the ways of pressing the controls the player uses
    alive,          \* entities With<NoteAlive>, named by their index in the queue
    hold_state,     \* HoldState component of each hold entity
    beat_count,     \* BeatTapCount component of each Beat entity
    pressed,        \* ActionState: the GameActions currently pressed
    changes,        \* how many times the player has changed what is pressed
    inputs,         \* unread TapInput/SlideInput/... messages of this frame
    scratch_prev,   \* ScratchState::prev_direction
    detector,       \* CriticalDetector
    results,        \* JudgmentResult messages not yet read by update_score
    feedback,       \* timers of the live JudgmentFeedback entities
    score,          \* ScoreState
    judged,         \* history: the judgments emitted for each note so far
    \* ---- the screens around a song ----
    next_state,     \* NextState<GameScreen>: "Unchanged" or the pending screen
    resources,      \* which of the song's resources exist in the world
    complete,       \* SongComplete.0
    ctx,            \* KiraContext: the clock and sound handles it holds
    sounds,         \* every song sound started so far: Playing, Paused or Stopped
    select,         \* SongSelectState: selected_index, selected_difficulty_index
    selected,       \* SelectedSong: which song and difficulty was loaded
    epoch,          \* how many times the note queue of this song was built
    session,        \* how often the player has paused and started a song, and
                    \* the controls pressed in the last frame of song select
    \* ---- the tools: chart generator and chart editor ----
    gen,            \* the chart generator's run: its inputs and each stage's output
    editor          \* EditorState: chart, undo_stack, redo_stack; history: the number of
                    \* actions executed, the last operation and the chart before it

cvars == <<current_beat, bpm, playing, time_samples, slope, intercept,
           timing_points, drift_frames, game_time, delta_secs, clock, clock_speed,
           audio_offset, glitches, last_path, drift_hist>>

pvars == <<screen, stage, queue, player, alive, hold_state, beat_count, pressed, changes, inputs,
           scratch_prev, detector, results, feedback, score, judged>>

svars == <<next_state, resources, complete, ctx, sounds, select, selected, epoch,
           session>>

\* the tools are idle while the game is studied
tvars == <<gen, editor>>

vars == <<cvars, pvars, svars, tvars>>

\* the chart generator before a run, and the editor with no chart open
NoGen ==
    [pc |-> "idle", difficulty |-> "Easy", onsets |-> <<>>, quantized |-> <<>>,
     filtered |-> <<>>, entries |-> <<>>]
NoChart == [notes |-> <<>>, path_segments |-> <<>>, events |-> <<>>, timing_points |-> <<>>]
NoEditor ==
    [open |-> FALSE, chart |-> NoChart, undo_stack |-> <<>>, redo_stack |-> <<>>,
     edits |-> 0, last |-> "none", before |-> NoChart]
ToolsIdle == gen = NoGen /\ editor = NoEditor

(***************************************************************************)
(* Bounds                                                                  *)
(***************************************************************************)
MaxTime == 64           \* frames are taken for this long after the song starts
MaxGlitches == 3        \* irregular audio-clock readings per run
PlayMaxTime == 48       \* the same, for a song with its notes
MaxPlayGlitches == 1
MaxInputChanges == 3    \* times the player changes what is pressed
MaxTotalNotes == 12     \* largest chart fed to scoring on its own
MaxMisses == 2          \* misses in a sequence of judgments fed to scoring
MaxChainNotes == 58     \* notes of the chart on which long chains are built
MaxChainMisses == 1     \* misses in a long chain run
MaxOffGrades == 1       \* judgments of a long chain run that are Cool or Good
SessionMaxTime == 88    \* play time of a session that goes through the screens
MaxPauses == 1          \* times the player pauses in a session
MaxSongs == 2           \* times the player starts a song in a session

(***************************************************************************)
(* Program constants, in model units                                       *)
(***************************************************************************)
MAX_SAMPLES == 15
DRIFT_THRESHOLD_SECS == 5       \* 0.050 s
DRIFT_FRAME_LIMIT == 3
MIN_REGRESSION_SPAN == 10       \* 0.10 s
FixScale == 1000

\* Environment: frame length, audio offset setting, charts' timing points
FrameDts == {4}                 \* 40 ms frames
AudioOffsets == {0}
SongStart == 30                 \* game_time when the song starts (after menus)
InitialBpms == {120}
TimingPointLists ==
    { <<>>,
      << [beat |-> 40, bpm |-> 60] >>,
      << [beat |-> 40, bpm |-> 60], [beat |-> 44, bpm |-> 120] >> }

(***************************************************************************)
(* Helpers                                                                 *)
(***************************************************************************)
Abs(x) == IF x < 0 THEN -x ELSE x
Max(a, b) == IF a >= b THEN a ELSE b
Min(a, b) == IF a <= b THEN a ELSE b

\* f64::round on a quotient: nearest integer, halves away from zero (d > 0)
RoundDiv(n, d) ==
    IF n >= 0 THEN (2 * n + d) \div (2 * d)
    ELSE -((2 * (-n) + d) \div (2 * d))

RECURSIVE SumSeq(_)
SumSeq(s) == IF s = <<>> THEN 0 ELSE Head(s) + SumSeq(Tail(s))

\* beats per time unit at a tempo, scaled by FixScale: bpm / 60.0
SlopeOf(b) == (b * FixScale) \div 60

linear_regression(samples) ==
    LET n == Len(samples) IN
    IF n < 2 THEN
        IF n = 1 THEN
            LET x == samples[n][1]
                y == samples[n][2] IN
            IF x = 0 THEN [slope |-> 0, intercept |-> y * FixScale]
            ELSE [slope |-> RoundDiv(y * FixScale, x), intercept |-> 0]
        ELSE [slope |-> 0, intercept |-> 0]
    ELSE
        LET x0 == samples[1][1]
            xc == [i \in 1..n |-> samples[i][1] - x0]
            ys == [i \in 1..n |-> samples[i][2]]
            sum_x == SumSeq(xc)
            sum_y == SumSeq(ys)
            sum_xx == SumSeq([i \in 1..n |-> xc[i] * xc[i]])
            sum_xy == SumSeq([i \in 1..n |-> xc[i] * ys[i]])
            \* n^2 * variance and n^2 * covariance
            variance == n * sum_xx - sum_x * sum_x
            covariance == n * sum_xy - sum_x * sum_y
        IN
        IF variance = 0 THEN
            [slope |-> 0, intercept |-> RoundDiv(sum_y * FixScale, n)]
        ELSE
            LET sl == RoundDiv(covariance * FixScale, variance) IN
            [slope |-> sl,
             intercept |-> RoundDiv(sum_y * FixScale, n)
                           - RoundDiv(sl * (sum_x + n * x0), n)]

LastTwo(h) == IF Len(h) > 2 THEN Tail(h) ELSE h

\* SongConductor::new(bpm) with the remaining timing points of the chart,
\* and the clock that play_song starts
InitConductor ==
    /\ bpm \in InitialBpms
    /\ current_beat = 0
    /\ playing = FALSE
    /\ time_samples = <<>>
    /\ slope = SlopeOf(bpm)
    /\ intercept = 0
    /\ timing_points \in TimingPointLists
    /\ drift_frames = 0
    /\ game_time = SongStart
    /\ delta_secs = 0
    /\ clock = 0
    /\ clock_speed = bpm
    /\ audio_offset \in AudioOffsets
    /\ glitches = 0
    /\ last_path = "new"
    /\ drift_hist = <<>>

\* offset_beats + clock reading (conductor.rs:122-127)
AudioBeats(clk, tempo) == clk + RoundDiv(audio_offset * tempo, 60)

\* push into the rolling window (conductor.rs:130-133)
PushSample(samples, now, audio_beats) ==
    Append(IF Len(samples) >= MAX_SAMPLES THEN Tail(samples) ELSE samples,
           <<now, audio_beats>>)

\* slope * game_time + intercept (conductor.rs:147-151)
PredictedBeat(samples, now) ==
    LET reg == linear_regression(samples) IN
    RoundDiv(reg.slope * now + reg.intercept, FixScale)

\* drift_secs > DRIFT_THRESHOLD_SECS with drift_secs = drift_beats / (bpm/60)
Drifting(predicted_beat, audio_beats, tempo) ==
    Abs(predicted_beat - audio_beats) * 60 > DRIFT_THRESHOLD_SECS * tempo

\* the drift counter after a regression frame (conductor.rs:157-174)
DriftCountMissingReset(drifting, count) == IF drifting THEN count + 1 ELSE count
DriftCount(drifting, count) == IF drifting THEN count + 1 ELSE 0

\* the beat during warm-up (conductor.rs:141)
\* (the variant before WarmupBeat follows the audio clock backwards too)
WarmupBeatRaw(audio_beats, previous) == audio_beats
WarmupBeat(audio_beats, previous) == Max(audio_beats, previous)

\* One run of update_conductor with a clock present: the frame took dt and
\* the audio clock advanced by adv since the last reading.
update_conductor(dt, adv) ==
    LET now == game_time + dt
        audio_beats == AudioBeats(clock + adv, bpm)
        pushed == PushSample(time_samples, now, audio_beats)
        x_span == now - pushed[1][1]
        reg == linear_regression(pushed)
        predicted_beat == PredictedBeat(pushed, now)
        drifting == Drifting(predicted_beat, audio_beats, bpm)
        count == DriftCount(drifting, drift_frames)
        new_beat == Max(predicted_beat, current_beat)
        seed == << <<now, audio_beats>> >>
    IN
    /\ game_time' = now
    /\ delta_secs' = dt
    /\ clock' = clock + adv
    /\ playing' = TRUE
    /\ UNCHANGED <<clock_speed, audio_offset>>
    /\ IF x_span < MIN_REGRESSION_SPAN THEN
            \* warm-up: track the audio clock directly, then return
            /\ time_samples' = pushed
            /\ current_beat' = WarmupBeat(audio_beats, current_beat)
            /\ slope' = SlopeOf(bpm)
            /\ intercept' = audio_beats * FixScale - SlopeOf(bpm) * now
            /\ last_path' = "warmup"
            /\ UNCHANGED <<bpm, timing_points, drift_frames, drift_hist>>
       ELSE IF drifting /\ count >= DRIFT_FRAME_LIMIT THEN
            \* hard resync, then return
            /\ time_samples' = seed
            /\ slope' = SlopeOf(bpm)
            /\ intercept' = audio_beats * FixScale - SlopeOf(bpm) * now
            /\ drift_frames' = 0
            /\ current_beat' = audio_beats
            /\ last_path' = "resync"
            /\ drift_hist' = <<>>
            /\ UNCHANGED <<bpm, timing_points>>
       ELSE
            /\ drift_frames' = count
            /\ current_beat' = new_beat
            /\ last_path' = IF drifting THEN "drift" ELSE "regress"
            /\ drift_hist' = LastTwo(Append(drift_hist, drifting))
            /\ IF timing_points # <<>> /\ new_beat >= timing_points[1].beat THEN
                    \* crossed a BPM change boundary: pop one timing point
                    /\ timing_points' = Tail(timing_points)
                    /\ bpm' = timing_points[1].bpm
                    /\ time_samples' = seed
                    /\ slope' = SlopeOf(timing_points[1].bpm)
                    /\ intercept' = audio_beats * FixScale
                                     - SlopeOf(timing_points[1].bpm) * now
               ELSE
                    /\ time_samples' = pushed
                    /\ slope' = reg.slope
                    /\ intercept' = reg.intercept
                    /\ UNCHANGED <<bpm, timing_points>>

(***************************************************************************)
(* Notes, input and judgment                                               *)
(***************************************************************************)
NoDir == "None"

ChartNote(beat, kind, a, b, end_beat) ==
    [target_beat |-> beat, kind |-> kind, dir |-> a, dir2 |-> b, end_beat |-> end_beat]
Tap(beat) == ChartNote(beat, "Tap", NoDir, NoDir, 0)
Slide(beat, d) == ChartNote(beat, "Slide", d, NoDir, 0)
Hold(beat, end_beat) == ChartNote(beat, "Hold", NoDir, NoDir, end_beat)
AdLib(beat) == ChartNote(beat, "AdLib", NoDir, NoDir, 0)
Beat(beat) == ChartNote(beat, "Beat", NoDir, NoDir, 0)
Scratch(beat) == ChartNote(beat, "Scratch", NoDir, NoDir, 0)
Critical(beat) == ChartNote(beat, "Critical", NoDir, NoDir, 0)
\* the Rest kind that the editor's note brushes and the chart generator emit
Rest(beat) == ChartNote(beat, "Rest", NoDir, NoDir, 0)
DualSlide(beat, a, b) == ChartNote(beat, "DualSlide", a, b, 0)

NoInputs == [tap |-> <<>>, slide |-> <<>>, scratch |-> <<>>,
             critical |-> <<>>, dual |-> <<>>]
NoDetector == [last_tap_beat |-> -1, last_slide_beat |-> -1, last_emitted_beat |-> -1]

\* init_score_state
init_score_state(notes) ==
    [score |-> 0, chain |-> 0, max_chain |-> 0, great_count |-> 0,
     cool_count |-> 0, good_count |-> 0, miss_count |-> 0,
     total_notes |-> Len(notes)]

\* the resources of a song: inserted by setup_playing (the ScoreState by
\* init_score_state from the queue), removed by cleanup_gameplay
SongResources ==
    {"SplinePath", "NoteQueue", "SongConductor", "ScoreState", "SongComplete",
     "SelectedSong"}

\* a song has been set up once and is playing
SongUnderWay ==
    /\ next_state = "Unchanged"
    /\ resources = SongResources
    /\ complete = FALSE
    /\ ctx = [clock |-> "Running", sound |-> 1]
    /\ sounds = << "Playing" >>
    /\ select = [selected_index |-> 0, selected_difficulty_index |-> 0]
    /\ selected = [song |-> 0, difficulty |-> 0]
    /\ epoch = 1
    /\ session = [pauses |-> 0, songs |-> 1, just |-> {"Confirm"}]

\* no note is live and no input, result or feedback is in flight
NothingLive ==
    /\ SongUnderWay
    /\ screen = "Playing"
    /\ stage = "UpdateConductor"
    /\ player = {}
    /\ alive = {}
    /\ hold_state = <<>>
    /\ beat_count = <<>>
    /\ pressed = {}
    /\ changes = 0
    /\ inputs = NoInputs
    /\ scratch_prev = NoDir
    /\ detector = NoDetector
    /\ results = <<>>
    /\ feedback = {}
    /\ judged = <<>>

\* the Playing screen's resources while the conductor is studied on its own
InitIdle ==
    /\ NothingLive
    /\ queue = [notes |-> <<>>, next_index |-> 0, look_ahead_beats |-> 0, travel_beats |-> 0]
    /\ score = init_score_state(<<>>)

\* Charts played in the model (beats in cb), each with the ways of pressing
\* the controls that the player uses on it; the queue is sorted by target_beat
Charts ==
    { [notes |-> << Hold(16, 56), Hold(24, 40) >>, look_ahead_beats |-> 10, travel_beats |-> 30,
       player |-> { {}, {"Tap"} }],
      [notes |-> << Tap(16), Hold(24, 48) >>, look_ahead_beats |-> 10, travel_beats |-> 30,
       player |-> { {}, {"Tap"} }],
      [notes |-> << AdLib(16), Tap(32) >>, look_ahead_beats |-> 10, travel_beats |-> 30,
       player |-> { {}, {"Tap"} }],
      [notes |-> << Critical(16), Slide(24, "N"), Scratch(32) >>,
       look_ahead_beats |-> 10, travel_beats |-> 30,
       player |-> { {}, {"Up"}, {"Tap", "Up"}, {"Up", "Right"} }],
      [notes |-> << Beat(16), DualSlide(24, "N", "E"), Tap(24) >>,
       look_ahead_beats |-> 10, travel_beats |-> 30,
       player |-> { {}, {"Tap"}, {"Up", "Right"} }] }

\* Entities are named by the index of their note in the queue, counted on
\* from the entities of the earlier builds of this song's queue
NoteIds == 1..(Len(queue.notes) * epoch)
EntityOf(i) == (epoch - 1) * Len(queue.notes) + i
\* the NoteTiming, NoteType and direction components given to an entity
NoteOf(id) == queue.notes[((id - 1) % Len(queue.notes)) + 1]

\* setup_playing: the queue, the conductor and the started clock; the score
\* state is built from the queue
InitPlayOn(charts) ==
    /\ ToolsIdle
    /\ InitConductor
    /\ timing_points = <<>>
    /\ SongUnderWay
    /\ screen = "Playing"
    /\ stage = "UpdateConductor"
    /\ \E c \in charts :
          /\ queue = [notes |-> c.notes, next_index |-> 0,
                      look_ahead_beats |-> c.look_ahead_beats,
                      travel_beats |-> c.travel_beats]
          /\ player = c.player
          /\ hold_state = [i \in 1..Len(c.notes) |-> "None"]
          /\ beat_count = [i \in 1..Len(c.notes) |-> [count |-> 0, first_tap_ms |-> 0]]
          /\ judged = [i \in 1..Len(c.notes) |-> <<>>]
          /\ score = init_score_state(c.notes)
    /\ alive = {}
    /\ pressed = {}
    /\ changes = 0
    /\ inputs = NoInputs
    /\ scratch_prev = NoDir
    /\ detector = NoDetector
    /\ results = <<>>
    /\ feedback = {}

InitPlay == InitPlayOn(Charts)

\* two more charts: a Rest before a tap, and a Critical, a Tap and a Slide
\* close enough for one frame's inputs to hit all three
KindCharts ==
    { [notes |-> << Rest(16), Tap(32) >>, look_ahead_beats |-> 10, travel_beats |-> 30,
       player |-> { {}, {"Tap"} }],
      [notes |-> << Critical(16), Tap(16), Slide(24, "N") >>,
       look_ahead_beats |-> 10, travel_beats |-> 30,
       player |-> { {}, {"Tap", "Up"} }] }
InitKinds == InitPlayOn(KindCharts)

\* spawn_notes: how far the cursor moves this frame
RECURSIVE SpawnCursor(_, _)
SpawnCursor(i, horizon) ==
    IF i < Len(queue.notes)
       /\ ~(queue.notes[i + 1].target_beat - queue.travel_beats > horizon)
    THEN SpawnCursor(i + 1, horizon)
    ELSE i

spawn_notes ==
    IF ~playing THEN UNCHANGED <<queue, alive, hold_state, beat_count>>
    ELSE
        LET horizon == current_beat + queue.look_ahead_beats
            cursor == SpawnCursor(queue.next_index, horizon)
            spawned == {EntityOf(i) : i \in (queue.next_index + 1)..cursor}
        IN
        /\ queue' = [queue EXCEPT !.next_index = cursor]
        /\ alive' = alive \cup spawned
        /\ hold_state' = [i \in NoteIds |->
                IF i \in spawned /\ NoteOf(i).kind = "Hold"
                THEN "Pending" ELSE hold_state[i]]
        /\ beat_count' = [i \in NoteIds |->
                IF i \in spawned /\ NoteOf(i).kind = "Beat"
                THEN [count |-> 0, first_tap_ms |-> 0] ELSE beat_count[i]]

\* SlideDirection::from_vec2 of the vector composed from the pressed directions
DirVec(p) ==
    [x |-> (IF "Right" \in p THEN 1 ELSE 0) - (IF "Left" \in p THEN 1 ELSE 0),
     y |-> (IF "Up" \in p THEN 1 ELSE 0) - (IF "Down" \in p THEN 1 ELSE 0)]
from_vec2(v) ==
    CASE v.x = 0 /\ v.y = 0 -> NoDir
      [] v.x = 1 /\ v.y = 0 -> "E"
      [] v.x = 1 /\ v.y = 1 -> "NE"
      [] v.x = 0 /\ v.y = 1 -> "N"
      [] v.x = -1 /\ v.y = 1 -> "NW"
      [] v.x = -1 /\ v.y = 0 -> "W"
      [] v.x = -1 /\ v.y = -1 -> "SW"
      [] v.x = 0 /\ v.y = -1 -> "S"
      [] v.x = 1 /\ v.y = -1 -> "SE"

Directions == {"Up", "Down", "Left", "Right"}

\* beats_to_ms / ms_to_beats compared without rounding:
\* beats_to_ms(d, bpm) <= ms  <=>  d * 60_000 <= ms * bpm   (d in cb: d * 600)
WithinMs(diff_beats, ms, tempo) == diff_beats * 600 <= ms * tempo
\* beats_to_ms as a number of milliseconds
beats_to_ms(diff_beats, tempo) == (diff_beats * 600) \div tempo

CRITICAL_WINDOW_MS == 30

read_tap_input(just) ==
    IF "Tap" \in just THEN << [beat |-> current_beat] >> ELSE <<>>

read_slide_input(just, now_pressed) ==
    IF just \cap Directions = {} THEN <<>>
    ELSE LET d == from_vec2(DirVec(now_pressed)) IN
         IF d = NoDir THEN <<>> ELSE << [beat |-> current_beat, direction |-> d] >>

read_scratch_input(now_pressed) ==
    LET current == from_vec2(DirVec(now_pressed)) IN
    IF scratch_prev # NoDir /\ current # NoDir /\ scratch_prev # current
    THEN << [beat |-> current_beat] >> ELSE <<>>

\* pressed cardinal directions in the order the code pushes them
PressedDirs(now_pressed) ==
    SelectSeq(<< <<"Up", "N">>, <<"Down", "S">>, <<"Left", "W">>, <<"Right", "E">> >>,
              LAMBDA pr : pr[1] \in now_pressed)

read_dual_slide_input(just, now_pressed) ==
    IF just \cap Directions = {} THEN <<>>
    ELSE LET pd == PressedDirs(now_pressed) IN
         IF Len(pd) = 2
         THEN << [beat |-> current_beat, dir_a |-> pd[1][2], dir_b |-> pd[2][2]] >>
         ELSE <<>>

\* detect_critical_input: the detector after the frame and the emitted message
detect_critical_input(just) ==
    LET d1 == [detector EXCEPT
                 !.last_tap_beat = IF "Tap" \in just THEN current_beat ELSE @,
                 !.last_slide_beat = IF just \cap Directions # {} THEN current_beat ELSE @]
        both == d1.last_tap_beat # -1 /\ d1.last_slide_beat # -1
        emit_beat == Min(d1.last_tap_beat, d1.last_slide_beat)
        emit == /\ both
                /\ WithinMs(Abs(d1.last_tap_beat - d1.last_slide_beat),
                            CRITICAL_WINDOW_MS, bpm)
                /\ (d1.last_emitted_beat = -1 \/ Abs(d1.last_emitted_beat - emit_beat) > 1)
        d2 == IF emit
              THEN [last_tap_beat |-> -1, last_slide_beat |-> -1,
                    last_emitted_beat |-> emit_beat]
              ELSE d1
        \* current_beat - t > (CRITICAL_WINDOW_MS + 5) * bpm / 60_000
        stale(t) == t # -1 /\ (current_beat - t) * 600 > (CRITICAL_WINDOW_MS + 5) * bpm
    IN
    [detector |-> [d2 EXCEPT
                     !.last_tap_beat = IF stale(@) THEN -1 ELSE @,
                     !.last_slide_beat = IF stale(@) THEN -1 ELSE @],
     msgs |-> IF emit THEN << [beat |-> emit_beat] >> ELSE <<>>]

\* The five input systems of GameSet::ReadInput for one frame in which the
\* player holds down now_pressed
ReadInputWith(now_pressed) ==
    LET just == now_pressed \ pressed
        crit == detect_critical_input(just)
    IN
    /\ pressed' = now_pressed
    /\ inputs' = [tap |-> read_tap_input(just),
                  slide |-> read_slide_input(just, now_pressed),
                  scratch |-> read_scratch_input(now_pressed),
                  critical |-> crit.msgs,
                  dual |-> read_dual_slide_input(just, now_pressed)]
    /\ scratch_prev' = from_vec2(DirVec(now_pressed))
    /\ detector' = crit.detector

GREAT_WINDOW_MS == 20
COOL_WINDOW_MS == 50
GOOD_WINDOW_MS == 100
MISS_WINDOW_MS == 100
FEEDBACK_LIFETIME == 60         \* 0.6 s

\* grade_timing, for a difference already known to be within the Good window
grade_timing(diff_beats, tempo) ==
    IF WithinMs(diff_beats, GREAT_WINDOW_MS, tempo) THEN "Great"
    ELSE IF WithinMs(diff_beats, COOL_WINDOW_MS, tempo) THEN "Cool"
    ELSE "Good"
\* grade_timing of a stored number of milliseconds
grade_timing_ms(ms) ==
    IF ms <= GREAT_WINDOW_MS THEN "Great"
    ELSE IF ms <= COOL_WINDOW_MS THEN "Cool" ELSE "Good"

Diff(beat, id) == Abs(beat - NoteOf(id).target_beat)

\* (the variant before Best keeps the farthest candidate)
BestFarthest(cands, beat) ==
    CHOOSE id \in cands :
        \A o \in cands : Diff(beat, id) > Diff(beat, o)
                          \/ (Diff(beat, id) = Diff(beat, o) /\ id <= o)
\* the candidate kept in `best`: strictly smaller differences replace it, so
\* among equals the first one iterated (entities iterate in spawn order) stays
Best(cands, beat) ==
    CHOOSE id \in cands :
        \A o \in cands : Diff(beat, id) < Diff(beat, o)
                          \/ (Diff(beat, id) = Diff(beat, o) /\ id <= o)

\* Rest notes: a tap input is matched against them, a tap within the window
\* is a Miss, and a Rest passed by the playhead is despawned with a Great
RestTakesTap(n) == n.kind = "Rest"
TapJudgment(id, timing) == IF NoteOf(id).kind = "Rest" THEN "Miss" ELSE timing
\* (the variant before PassedJudgments treats a passed Rest as any missed note)
PassedJudgmentsAllMiss(id, missed) == missed
PassedJudgments(id, missed) ==
    IF NoteOf(id).kind = "Rest" THEN << "Great" >> ELSE missed

\* which notes an input of a given reader may hit
Matches(reader, msg, id) ==
    LET n == NoteOf(id) IN
    CASE reader = "critical" -> n.kind = "Critical"
      [] reader = "dual" ->
            /\ n.kind = "DualSlide"
            /\ \/ (msg.dir_a = n.dir /\ msg.dir_b = n.dir2)
               \/ (msg.dir_a = n.dir2 /\ msg.dir_b = n.dir)
      [] reader = "scratch" -> n.kind = "Scratch"
      [] reader = "slide" -> n.kind = "Slide" /\ n.dir = msg.direction
      [] reader = "tap" ->
            \/ n.kind \in {"Tap", "AdLib"}
            \/ (n.kind = "Hold" /\ hold_state[id] = "Pending")
            \/ RestTakesTap(n)

\* the effect of check_hits so far: the consumed list, the queued commands
\* (despawn, insert Held), the written results and the Beat counters
Emit(st, id, grade) ==
    [st EXCEPT !.consumed = @ \cup {id},
               !.out = Append(@, grade),
               !.jd = [@ EXCEPT ![id] = Append(@, grade)]]

HitOne(st, reader, msg) ==
    LET cands == {id \in alive : /\ Matches(reader, msg, id)
                                  /\ id \notin st.consumed
                                  /\ WithinMs(Diff(msg.beat, id), GOOD_WINDOW_MS, bpm)}
    IN
    IF cands = {} THEN st
    ELSE LET id == Best(cands, msg.beat)
             e == Emit(st, id, TapJudgment(id, grade_timing(Diff(msg.beat, id), bpm)))
         IN
         IF NoteOf(id).kind = "Hold"
         THEN [e EXCEPT !.held = @ \cup {id}]
         ELSE [e EXCEPT !.despawn = @ \cup {id}]

\* second pass of a tap: Beat notes in window count the tap, the second tap
\* clears the note with the grade of the first
RECURSIVE BeatPass(_, _, _)
BeatPass(st, msg, ids) ==
    IF ids = {} THEN st
    ELSE
        LET id == CHOOSE i \in ids : \A o \in ids : i <= o
            rest == ids \ {id}
            hit == /\ NoteOf(id).kind = "Beat"
                   /\ id \notin st.consumed
                   /\ WithinMs(Diff(msg.beat, id), GOOD_WINDOW_MS, bpm)
            bc == st.bc[id]
            first == IF bc.count = 0 THEN beats_to_ms(Diff(msg.beat, id), bpm)
                     ELSE bc.first_tap_ms
            counted == [st EXCEPT !.bc[id] = [count |-> bc.count + 1,
                                              first_tap_ms |-> first]]
        IN
        IF ~hit THEN BeatPass(st, msg, rest)
        ELSE IF bc.count + 1 >= 2
        THEN BeatPass([Emit(counted, id, grade_timing_ms(first))
                         EXCEPT !.despawn = @ \cup {id}], msg, rest)
        ELSE BeatPass(counted, msg, rest)

RECURSIVE HitLoop(_, _, _)
HitLoop(st, reader, msgs) ==
    IF msgs = <<>> THEN st
    ELSE LET one == HitOne(st, reader, Head(msgs))
             two == IF reader = "tap" THEN BeatPass(one, Head(msgs), alive) ELSE one
         IN HitLoop(two, reader, Tail(msgs))

\* the order in which check_hits reads its five message readers
\* (the variant before ReaderOrder reads the directional slides before the taps)
ReaderOrderSlidesFirst == << "critical", "dual", "scratch", "slide", "tap" >>
ReaderOrder == << "critical", "dual", "scratch", "tap", "slide" >>

RECURSIVE HitReaders(_, _)
HitReaders(st, readers) ==
    IF readers = <<>> THEN st
    ELSE HitReaders(HitLoop(st, Head(readers), inputs[Head(readers)]), Tail(readers))

check_hits ==
    LET st == HitReaders([consumed |-> {}, despawn |-> {}, held |-> {},
                          out |-> <<>>, jd |-> judged, bc |-> beat_count],
                         ReaderOrder)
    IN
    /\ alive' = alive \ st.despawn
    /\ hold_state' = [i \in NoteIds |-> IF i \in st.held THEN "Held" ELSE hold_state[i]]
    /\ beat_count' = st.bc
    /\ results' = results \o st.out
    /\ judged' = st.jd
    /\ inputs' = NoInputs

\* check_holds, one hold: the judgment it writes (or "none"), the state it
\* leaves and whether the entity is despawned.
\* Input released within the good window of end_beat: graded by the timing of
\* the release (the variant before it grades every such release Great).
ReleaseInWindowUngraded(diff_beats) ==
    [grade |-> "Great", state |-> "Held", despawn |-> TRUE]
ReleaseInWindow(diff_beats) ==
    [grade |-> grade_timing(diff_beats, bpm), state |-> "Held", despawn |-> TRUE]

\* Input released outside the window: Dropped, tail Miss, despawned (the
\* variant before it leaves the entity alive).
ReleaseEarlyKeepsEntity ==
    [grade |-> "Miss", state |-> "Dropped", despawn |-> FALSE]
ReleaseEarly ==
    [grade |-> "Miss", state |-> "Dropped", despawn |-> TRUE]

\* Input still pressed: auto-complete with Great once past end_beat and out
\* of the window (the variant before it completes as soon as end_beat passes).
HeldThroughAtEndBeat(past_end, in_window) ==
    IF past_end
    THEN [grade |-> "Great", state |-> "Held", despawn |-> TRUE]
    ELSE [grade |-> "none", state |-> "Held", despawn |-> FALSE]
HeldThrough(past_end, in_window) ==
    IF past_end /\ ~in_window
    THEN [grade |-> "Great", state |-> "Held", despawn |-> TRUE]
    ELSE [grade |-> "none", state |-> "Held", despawn |-> FALSE]

HoldOutcome(id) ==
    LET end_beat == NoteOf(id).end_beat
        diff_beats == Abs(current_beat - end_beat)
        past_end == current_beat > end_beat
        tap_held == "Tap" \in pressed
        in_window == WithinMs(diff_beats, GOOD_WINDOW_MS, bpm)
    IN
    IF ~tap_held THEN
        IF in_window THEN ReleaseInWindow(diff_beats) ELSE ReleaseEarly
    ELSE HeldThrough(past_end, in_window)

\* judgments of a set of notes, written in iteration order
RECURSIVE WriteAll(_, _)
WriteAll(ids, g) ==
    IF ids = {} THEN <<>>
    ELSE LET id == CHOOSE i \in ids : \A o \in ids : i <= o
         IN g[id] \o WriteAll(ids \ {id}, g)

check_holds ==
    LET held == {id \in alive : hold_state[id] = "Held"}
        g == [id \in held |-> IF HoldOutcome(id).grade = "none" THEN <<>>
                                ELSE << HoldOutcome(id).grade >>]
    IN
    /\ alive' = alive \ {id \in held : HoldOutcome(id).despawn}
    /\ hold_state' = [i \in NoteIds |->
            IF i \in held THEN HoldOutcome(i).state ELSE hold_state[i]]
    /\ results' = results \o WriteAll(held, g)
    /\ judged' = [i \in NoteIds |-> IF i \in held THEN judged[i] \o g[i] ELSE judged[i]]

\* despawn_missed, one note past the miss window and not being held
\* (the variant before MissJudgments writes one Miss for a hold)
MissJudgmentsOnePerNote(id) ==
    IF NoteOf(id).kind = "AdLib" THEN <<>> ELSE << "Miss" >>
MissJudgments(id) ==
    IF NoteOf(id).kind = "AdLib" THEN <<>>
    ELSE IF NoteOf(id).kind = "Hold" THEN << "Miss", "Miss" >>
    ELSE << "Miss" >>

\* (the variant before PastMissWindow waits twice the miss window)
PastMissWindowLate(id) ==
    current_beat * 600 > NoteOf(id).target_beat * 600 + 2 * MISS_WINDOW_MS * bpm
\* current_beat > target_beat + ms_to_beats(MISS_WINDOW_MS, bpm)
PastMissWindow(id) ==
    current_beat * 600 > NoteOf(id).target_beat * 600 + MISS_WINDOW_MS * bpm

\* a hold being held is left to check_holds (the variant before it leaves
\* none out)
BeingHeldNever(id) == FALSE
BeingHeld(id) == hold_state[id] = "Held"

despawn_missed ==
    LET missed == {id \in alive : PastMissWindow(id) /\ ~BeingHeld(id)}
    IN
    /\ alive' = alive \ missed
    /\ results' = results \o WriteAll(missed, [id \in missed |->
                                PassedJudgments(id, MissJudgments(id))])
    /\ judged' = [i \in NoteIds |->
            IF i \in missed THEN judged[i] \o PassedJudgments(i, MissJudgments(i))
            ELSE judged[i]]

(***************************************************************************)
(* Scoring                                                                 *)
(***************************************************************************)
PLAY_SCORE_POOL == 850000
MAX_CHAIN_BONUS == 100000
CLEAR_BONUS == 50000
FEVER_THRESHOLD == 10
TRANCE_THRESHOLD == 100

\* grade_multiplier, in tenths
grade_multiplier(j) ==
    CASE j = "Great" -> 10 [] j = "Cool" -> 8 [] j = "Good" -> 5 [] j = "Miss" -> 0

\* (the variant before chain_tier enters a tier one judgment early)
chain_tier_one_early(st) ==
    IF st.chain + 1 >= TRANCE_THRESHOLD THEN "Trance"
    ELSE IF st.chain + 1 >= FEVER_THRESHOLD THEN "Fever" ELSE "Normal"
chain_tier(st) ==
    IF st.chain >= TRANCE_THRESHOLD THEN "Trance"
    ELSE IF st.chain >= FEVER_THRESHOLD THEN "Fever" ELSE "Normal"

chain_increment(tier) ==
    CASE tier = "Normal" -> 1 [] tier = "Fever" -> 2 [] tier = "Trance" -> 4

notes_judged(st) == st.great_count + st.cool_count + st.good_count + st.miss_count

\* round(count * base_value * multiplier), base_value = PLAY_SCORE_POOL / total_notes
GradePoints(count, j, total) ==
    IF total = 0 THEN 0
    ELSE RoundDiv(count * (PLAY_SCORE_POOL \div 10) * grade_multiplier(j), total)

play_score(st) ==
    GradePoints(st.great_count, "Great", st.total_notes)
    + GradePoints(st.cool_count, "Cool", st.total_notes)
    + GradePoints(st.good_count, "Good", st.total_notes)

chain_bonus_uncapped(st) ==
    IF st.total_notes = 0 THEN 0
    ELSE RoundDiv(MAX_CHAIN_BONUS * st.max_chain, st.total_notes)
chain_bonus(st) ==
    IF st.total_notes = 0 THEN 0
    ELSE Min(RoundDiv(MAX_CHAIN_BONUS * st.max_chain, st.total_notes), MAX_CHAIN_BONUS)

total_score(st) == play_score(st) + chain_bonus(st) + CLEAR_BONUS

\* grade_rank_from_score, as the rank's label (the variant before it
\* demands more than 1,000,000 for S++)
grade_rank_from_score_strict(sc) ==
    IF sc > 1000000 THEN "S++"
    ELSE IF sc >= 980000 THEN "S+"
    ELSE IF sc >= 950000 THEN "S"
    ELSE IF sc >= 900000 THEN "A"
    ELSE IF sc >= 800000 THEN "B"
    ELSE IF sc >= 700000 THEN "C" ELSE "D"
grade_rank_from_score(sc) ==
    IF sc >= 1000000 THEN "S++"
    ELSE IF sc >= 980000 THEN "S+"
    ELSE IF sc >= 950000 THEN "S"
    ELSE IF sc >= 900000 THEN "A"
    ELSE IF sc >= 800000 THEN "B"
    ELSE IF sc >= 700000 THEN "C" ELSE "D"

grade_rank(st) == grade_rank_from_score(total_score(st))

\* update_score, one JudgmentResult (the variant before it forgets to raise
\* max_chain)
ScoreOneStaleMax(st, j) ==
    LET counted == [st EXCEPT
            !.great_count = IF j = "Great" THEN @ + 1 ELSE @,
            !.cool_count = IF j = "Cool" THEN @ + 1 ELSE @,
            !.good_count = IF j = "Good" THEN @ + 1 ELSE @,
            !.miss_count = IF j = "Miss" THEN @ + 1 ELSE @]
        chain == IF j = "Miss" THEN 0
                 ELSE st.chain + chain_increment(chain_tier(st))
    IN
    [counted EXCEPT
        !.chain = chain,
        !.score = @ + GradePoints(1, j, st.total_notes)]
ScoreOne(st, j) ==
    LET counted == [st EXCEPT
            !.great_count = IF j = "Great" THEN @ + 1 ELSE @,
            !.cool_count = IF j = "Cool" THEN @ + 1 ELSE @,
            !.good_count = IF j = "Good" THEN @ + 1 ELSE @,
            !.miss_count = IF j = "Miss" THEN @ + 1 ELSE @]
        chain == IF j = "Miss" THEN 0
                 ELSE st.chain + chain_increment(chain_tier(st))
    IN
    [counted EXCEPT
        !.chain = chain,
        !.max_chain = IF j = "Miss" THEN @ ELSE Max(@, chain),
        !.score = @ + GradePoints(1, j, st.total_notes)]

RECURSIVE update_score(_, _)
update_score(st, msgs) ==
    IF msgs = <<>> THEN st
    ELSE update_score(ScoreOne(st, Head(msgs)), Tail(msgs))

\* The audio clock advances in step with the frame ...
ClockInStep(dt) == (dt * clock_speed) \div 60
\* ... or its reading is stale (no new buffer) or catches up several buffers
ClockGlitches(dt) == {0, 3 * ClockInStep(dt)}

FrameInSync(limit) ==
    /\ game_time < SongStart + limit
    /\ \E dt \in FrameDts : update_conductor(dt, ClockInStep(dt))
    /\ UNCHANGED glitches

FrameGlitch(limit, max_glitches) ==
    /\ game_time < SongStart + limit
    /\ glitches < max_glitches
    /\ glitches' = glitches + 1
    /\ \E dt \in FrameDts : \E adv \in ClockGlitches(dt) : update_conductor(dt, adv)

\* ---- the conductor on its own ----
ConductorInSync == FrameInSync(MaxTime) /\ UNCHANGED <<pvars, svars, tvars>>
ConductorGlitch == FrameGlitch(MaxTime, MaxGlitches) /\ UNCHANGED <<pvars, svars, tvars>>

Init == InitConductor /\ InitIdle /\ ToolsIdle

Next == ConductorInSync \/ ConductorGlitch

Spec == Init /\ [][Next]_vars

\* ---- a song on the Playing screen: the chained system sets of a frame ----
Stage(from, to) ==
    /\ screen = "Playing"
    /\ "SongConductor" \in resources
    /\ stage = from
    /\ stage' = to

PlayConductorInSync ==
    /\ Stage("UpdateConductor", "SpawnNotes")
    /\ next_state = "Unchanged"
    /\ FrameInSync(PlayMaxTime)
    /\ UNCHANGED <<svars, screen, queue, player, alive, hold_state, beat_count, pressed, changes, inputs,
                   scratch_prev, detector, results, feedback, score, judged>>
    /\ UNCHANGED tvars

PlayConductorGlitch ==
    /\ Stage("UpdateConductor", "SpawnNotes")
    /\ next_state = "Unchanged"
    /\ FrameGlitch(PlayMaxTime, MaxPlayGlitches)
    /\ UNCHANGED <<svars, screen, queue, player, alive, hold_state, beat_count, pressed, changes, inputs,
                   scratch_prev, detector, results, feedback, score, judged>>
    /\ UNCHANGED tvars

SpawnNotes ==
    /\ Stage("SpawnNotes", "ReadInput")
    /\ spawn_notes
    /\ UNCHANGED <<svars, cvars, screen, player, pressed, changes, inputs, scratch_prev, detector, results,
                   feedback, score, judged>>
    /\ UNCHANGED tvars

ReadInput ==
    /\ Stage("ReadInput", "CheckHits")
    /\ \E now_pressed \in player :
          /\ now_pressed # pressed => changes < MaxInputChanges
          /\ changes' = IF now_pressed # pressed THEN changes + 1 ELSE changes
          /\ ReadInputWith(now_pressed)
    /\ UNCHANGED <<svars, cvars, screen, queue, player, alive, hold_state, beat_count, results,
                   feedback, score, judged>>
    /\ UNCHANGED tvars

CheckHits ==
    /\ Stage("CheckHits", "CheckHolds")
    /\ check_hits
    /\ UNCHANGED <<svars, cvars, screen, queue, player, pressed, changes, scratch_prev, detector,
                   feedback, score>>
    /\ UNCHANGED tvars

CheckHolds ==
    /\ Stage("CheckHolds", "DespawnMissed")
    /\ check_holds
    /\ UNCHANGED <<svars, cvars, screen, queue, player, beat_count, pressed, changes, inputs, scratch_prev,
                   detector, feedback, score>>
    /\ UNCHANGED tvars

DespawnMissed ==
    /\ Stage("DespawnMissed", "UpdateScore")
    /\ despawn_missed
    /\ UNCHANGED <<svars, cvars, screen, queue, player, hold_state, beat_count, pressed, changes, inputs,
                   scratch_prev, detector, feedback, score>>
    /\ UNCHANGED tvars

\* update_score and spawn_feedback both read the frame's JudgmentResults
\* (the variant before UpdateScore leaves the messages to be read again)
UpdateScoreRereads ==
    /\ Stage("UpdateScore", "Render")
    /\ score' = update_score(score, results)
    /\ feedback' = IF results = <<>> THEN feedback
                   ELSE feedback \cup {FEEDBACK_LIFETIME}
    /\ UNCHANGED <<svars, cvars, screen, queue, player, alive, hold_state, beat_count, pressed,
                   changes, inputs, scratch_prev, detector, judged, results>>
    /\ UNCHANGED tvars
UpdateScore ==
    /\ Stage("UpdateScore", "Render")
    /\ score' = update_score(score, results)
    /\ feedback' = IF results = <<>> THEN feedback
                   ELSE feedback \cup {FEEDBACK_LIFETIME}
    /\ results' = <<>>
    /\ UNCHANGED <<svars, cvars, screen, queue, player, alive, hold_state, beat_count, pressed,
                   changes, inputs, scratch_prev, detector, judged>>
    /\ UNCHANGED tvars

\* check_song_end: the song is over
SongEnded ==
    /\ "SongComplete" \in resources
    /\ ~complete
    /\ "ScoreState" \in resources
    /\ score.total_notes # 0
    /\ ~(notes_judged(score) < score.total_notes)
    /\ feedback = {}

\* cleanup_feedback and check_song_end; the despawns of cleanup_feedback are
\* applied after check_song_end has looked at the feedback entities
Render ==
    /\ Stage("Render", "UpdateConductor")
    /\ feedback' = {t - delta_secs : t \in {u \in feedback : u - delta_secs > 0}}
    /\ complete' = (complete \/ SongEnded)
    /\ next_state' = IF SongEnded THEN "Results" ELSE next_state
    /\ UNCHANGED <<cvars, screen, queue, player, alive, hold_state, beat_count, pressed,
                   changes, inputs, scratch_prev, detector, results, score, judged,
                   resources, ctx, sounds, select, selected, epoch, session>>
    /\ UNCHANGED tvars

NextPlay ==
    \/ PlayConductorInSync
    \/ PlayConductorGlitch
    \/ SpawnNotes
    \/ ReadInput
    \/ CheckHits
    \/ CheckHolds
    \/ DespawnMissed
    \/ UpdateScore
    \/ Render

SpecPlay == InitPlay /\ [][NextPlay]_vars

SpecKinds == InitKinds /\ [][NextPlay]_vars

\* ---- scoring on its own: any sequence of judgments for a chart of any
\* size, with at most total_notes of them non-misses ----
RECURSIVE TapsOnly(_)
TapsOnly(n) == IF n = 0 THEN <<>> ELSE Append(TapsOnly(n - 1), Tap(16 * n))

InitScore ==
    /\ ToolsIdle
    /\ InitConductor
    /\ timing_points = <<>>
    /\ NothingLive
    /\ \E n \in 0..MaxTotalNotes :
          /\ queue = [notes |-> TapsOnly(n), next_index |-> 0,
                      look_ahead_beats |-> 10, travel_beats |-> 30]
          /\ score = init_score_state(TapsOnly(n))

NonMisses(st) == st.great_count + st.cool_count + st.good_count

JudgeHit ==
    /\ NonMisses(score) < score.total_notes
    /\ \E j \in {"Great", "Cool", "Good"} : score' = update_score(score, << j >>)
    /\ UNCHANGED <<svars, cvars, screen, stage, queue, player, alive, hold_state, beat_count,
                   pressed, changes, inputs, scratch_prev, detector, results,
                   feedback, judged>>
    /\ UNCHANGED tvars

JudgeMiss ==
    /\ score.miss_count < MaxMisses
    /\ score' = update_score(score, << "Miss" >>)
    /\ UNCHANGED <<svars, cvars, screen, stage, queue, player, alive, hold_state, beat_count,
                   pressed, changes, inputs, scratch_prev, detector, results,
                   feedback, judged>>
    /\ UNCHANGED tvars

NextScore == JudgeHit \/ JudgeMiss

SpecScore == InitScore /\ [][NextScore]_vars

\* ---- scoring on a long chart: chains that reach the Fever and Trance
\* tiers, with few misses and few judgments below Great ----
InitChain ==
    /\ ToolsIdle
    /\ InitConductor
    /\ timing_points = <<>>
    /\ NothingLive
    /\ queue = [notes |-> TapsOnly(MaxChainNotes), next_index |-> 0,
                look_ahead_beats |-> 10, travel_beats |-> 30]
    /\ score = init_score_state(TapsOnly(MaxChainNotes))

ChainHit ==
    /\ NonMisses(score) < score.total_notes
    /\ \E j \in {"Great", "Cool", "Good"} :
          /\ j # "Great" => score.cool_count + score.good_count < MaxOffGrades
          /\ score' = update_score(score, << j >>)
    /\ UNCHANGED <<svars, cvars, screen, stage, queue, player, alive, hold_state, beat_count,
                   pressed, changes, inputs, scratch_prev, detector, results,
                   feedback, judged>>
    /\ UNCHANGED tvars

ChainMiss ==
    /\ score.miss_count < MaxChainMisses
    /\ score' = update_score(score, << "Miss" >>)
    /\ UNCHANGED <<svars, cvars, screen, stage, queue, player, alive, hold_state, beat_count,
                   pressed, changes, inputs, scratch_prev, detector, results,
                   feedback, judged>>
    /\ UNCHANGED tvars

NextChain == ChainHit \/ ChainMiss

SpecChain == InitChain /\ [][NextChain]_vars


(***************************************************************************)
(* The screens around a song: song select, playing, paused, results        *)
(***************************************************************************)
\* The songs on disk: per song the difficulties of its metadata and what
\* load_chart returns for each (ok = FALSE: the file does not load).
\* points is the number of CatmullRom control points of the path segments.
ChartEntry(beat, note_type, direction) ==
    [beat |-> beat, note_type |-> note_type, direction |-> direction]
ChartOnDisk(ok, points, entries) ==
    [ok |-> ok, points |-> points, notes |-> entries,
     timing_points |-> << [beat |-> 0, bpm |-> 120] >>,
     look_ahead_beats |-> 10, travel_beats |-> 30]
Library ==
    << [difficulties |-> << "Easy", "Hard" >>,
        charts |-> << ChartOnDisk(TRUE, 4, << ChartEntry(16, "Slide", "N"),
                                              ChartEntry(12, "Hold", NoDir),
                                              ChartEntry(8, "Tap", NoDir) >>),
                      ChartOnDisk(FALSE, 0, <<>>) >>],
       [difficulties |-> << "Easy" >>,
        charts |-> << ChartOnDisk(TRUE, 3, << ChartEntry(8, "Tap", NoDir) >>) >>] >>

\* the ways the player presses the controls on the song select screen and
\* during a song of the library
SelectPresses ==
    { {"Up"}, {"Down"}, {"Left"}, {"Right"}, {"Confirm"}, {"Down", "Confirm"},
      {"Right", "Confirm"} }
SessionPlayer == { {}, {"Tap"} }

\* load_chart for the song and difficulty under the cursor
load_chart(song, difficulty) == Library[song + 1].charts[difficulty + 1]

\* SongSelectState::available_difficulties
available_difficulties(sel) ==
    IF Len(Library) = 0 THEN <<>> ELSE Library[sel.selected_index + 1].difficulties

\* navigate_songs: the cursor after the Up, Down, Left and Right presses
MoveCursor(sel, just) ==
    LET up == IF "Up" \in just
              THEN [selected_index |-> IF sel.selected_index > 0
                                       THEN sel.selected_index - 1
                                       ELSE Len(Library) - 1,
                    selected_difficulty_index |-> 0]
              ELSE sel
        down == IF "Down" \in just
                THEN [selected_index |-> (up.selected_index + 1) % Len(Library),
                      selected_difficulty_index |-> 0]
                ELSE up
        left == IF /\ "Left" \in just
                   /\ available_difficulties(down) # <<>>
                   /\ down.selected_difficulty_index > 0
                THEN [down EXCEPT !.selected_difficulty_index = @ - 1]
                ELSE down
    IN
    IF /\ "Right" \in just
       /\ available_difficulties(left) # <<>>
       /\ left.selected_difficulty_index < Len(available_difficulties(left)) - 1
    THEN [left EXCEPT !.selected_difficulty_index = @ + 1]
    ELSE left

\* (the variant before ConfirmLoads goes on with a chart that did not load)
ConfirmLoadsAnyway(sel, just) ==
    /\ "Confirm" \in just
    /\ sel.selected_difficulty_index < Len(available_difficulties(sel))
\* navigate_songs: Confirm with a difficulty under the cursor whose chart loads
ConfirmLoads(sel, just) ==
    /\ "Confirm" \in just
    /\ sel.selected_difficulty_index < Len(available_difficulties(sel))
    /\ load_chart(sel.selected_index, sel.selected_difficulty_index).ok

navigate_songs(just) ==
    IF Len(Library) = 0
    THEN UNCHANGED <<select, resources, selected, next_state>>
    ELSE LET sel == MoveCursor(select, just) IN
         /\ select' = sel
         /\ IF ConfirmLoads(sel, just)
            THEN /\ resources' = resources \cup {"SelectedSong"}
                 /\ selected' = [song |-> sel.selected_index + 1,
                                 difficulty |-> sel.selected_difficulty_index + 1]
                 /\ next_state' = "Playing"
            ELSE UNCHANGED <<resources, selected, next_state>>

\* setup_playing, step 2: the queue holds the Tap and Slide entries, sorted
\* by target beat (a stable sort)
RECURSIVE QueueNotes(_)
QueueNotes(entries) ==
    IF entries = <<>> THEN <<>>
    ELSE LET e == Head(entries) IN
         (IF e.note_type = "Tap" THEN << Tap(e.beat) >>
          ELSE IF e.note_type = "Slide" THEN << Slide(e.beat, e.direction) >>
          ELSE <<>>) \o QueueNotes(Tail(entries))

InsertByBeat(sorted, n) ==
    LET k == Cardinality({i \in 1..Len(sorted) : sorted[i].target_beat <= n.target_beat})
    IN SubSeq(sorted, 1, k) \o << n >> \o SubSeq(sorted, k + 1, Len(sorted))

RECURSIVE SortByBeat(_)
SortByBeat(notes) ==
    IF notes = <<>> THEN <<>>
    ELSE InsertByBeat(SortByBeat(SubSeq(notes, 1, Len(notes) - 1)), notes[Len(notes)])

SelectedChart == Library[selected.song].charts[selected.difficulty]

\* values of the variables of resources that do not exist
NoQueue == [notes |-> <<>>, next_index |-> 0, look_ahead_beats |-> 0, travel_beats |-> 0]
NoCtx == [clock |-> "None", sound |-> 0]

\* play_song: a new clock and a new sound; the handles replace the ones the
\* context held (a sound whose handle is dropped plays on)
play_song(ctx0, sounds0) ==
    /\ sounds' = Append(sounds0, "Playing")
    /\ ctx' = [clock |-> "Running", sound |-> Len(sounds0) + 1]

\* stop_song: stops the sound the context holds and drops both handles
stop_song ==
    /\ sounds' = [i \in 1..Len(sounds) |->
                    IF i = ctx.sound THEN "Stopped" ELSE sounds[i]]
    /\ ctx' = NoCtx

\* pause_audio and resume_audio act on the handles the context holds
SoundsSetTo(status) ==
    [i \in 1..Len(sounds) |-> IF i = ctx.sound THEN status ELSE sounds[i]]
ClockSetTo(status) ==
    [ctx EXCEPT !.clock = IF @ = "None" THEN "None" ELSE status]

\* SongConductor::new(bpm) with the chart's remaining timing points
NewConductor(tempo, points) ==
    /\ current_beat' = 0
    /\ bpm' = tempo
    /\ playing' = FALSE
    /\ time_samples' = <<>>
    /\ slope' = SlopeOf(tempo)
    /\ intercept' = 0
    /\ timing_points' = points
    /\ drift_frames' = 0
    /\ clock' = 0
    /\ clock_speed' = tempo
    /\ last_path' = "new"
    /\ drift_hist' = <<>>

\* setup_playing: a CatmullRom spline needs 4 control points
EnoughControlPoints(chart) == ~(chart.points < 4)

\* the ScoreState of a song is built from the NoteQueue when the queue is,
\* on entering Playing
ScoreOnEnter(notes) == init_score_state(notes)

\* setup_playing, run on every entry into Playing, after the exit handlers
\* of the screen that is left gave the audio state (ctx0, sounds0)
setup_playing(ctx0, sounds0) ==
    IF ~EnoughControlPoints(SelectedChart)
    THEN /\ ctx' = ctx0
         /\ sounds' = sounds0
         /\ UNCHANGED <<current_beat, bpm, playing, time_samples, slope, intercept,
                        timing_points, drift_frames, clock, clock_speed, last_path,
                        drift_hist, queue, player, hold_state, beat_count, judged,
                        score, resources, complete, epoch>>
    ELSE LET notes == SortByBeat(QueueNotes(SelectedChart.notes))
             build == IF "NoteQueue" \in resources THEN epoch + 1 ELSE 1
             ids == 1..(Len(notes) * build)
         IN
         /\ queue' = [notes |-> notes, next_index |-> 0,
                      look_ahead_beats |-> SelectedChart.look_ahead_beats,
                      travel_beats |-> SelectedChart.travel_beats]
         /\ epoch' = build
         /\ player' = SessionPlayer
         /\ hold_state' = [id \in ids |-> IF id \in alive THEN hold_state[id] ELSE "None"]
         /\ beat_count' = [id \in ids |-> IF id \in alive THEN beat_count[id]
                                          ELSE [count |-> 0, first_tap_ms |-> 0]]
         /\ judged' = [id \in ids |-> IF build > 1 /\ id \in DOMAIN judged
                                      THEN judged[id] ELSE <<>>]
         /\ score' = ScoreOnEnter(notes)
         /\ NewConductor(Head(SelectedChart.timing_points).bpm,
                         Tail(SelectedChart.timing_points))
         /\ play_song(ctx0, sounds0)
         /\ resources' = resources \cup {"SplinePath", "NoteQueue", "SongConductor",
                                         "ScoreState", "SongComplete"}
         /\ complete' = FALSE

\* cleanup_gameplay (OnExit(Results)) and then setup_song_select
cleanup_gameplay ==
    /\ stop_song
    /\ resources' = resources \ SongResources
    /\ alive' = {}
    /\ feedback' = {}

\* ---- the state transitions, applied between two frames ----
Transition(from, to) ==
    /\ stage = "UpdateConductor"
    /\ screen = from
    /\ next_state = to
    /\ screen' = to
    /\ next_state' = "Unchanged"

\* SongSelect -> Playing
EnterPlaying ==
    /\ Transition("SongSelect", "Playing")
    /\ setup_playing(ctx, sounds)
    /\ UNCHANGED <<game_time, delta_secs, audio_offset, glitches, stage, alive, pressed,
                   changes, inputs, scratch_prev, detector, results, feedback, select,
                   selected, session>>
    /\ UNCHANGED tvars

\* Playing -> Paused: the feedback entities go with the screen, pause_audio
PauseGame ==
    /\ Transition("Playing", "Paused")
    /\ feedback' = {}
    /\ ctx' = ClockSetTo("Paused")
    /\ sounds' = SoundsSetTo("Paused")
    /\ UNCHANGED <<cvars, stage, queue, player, alive, hold_state, beat_count, pressed,
                   changes, inputs, scratch_prev, detector, results, score, judged,
                   resources, complete, select, selected, epoch, session>>
    /\ UNCHANGED tvars

\* Paused -> Playing: resume_audio, then setup_playing again
ResumeGame ==
    /\ Transition("Paused", "Playing")
    /\ setup_playing(ClockSetTo("Running"), SoundsSetTo("Playing"))
    /\ UNCHANGED <<game_time, delta_secs, audio_offset, glitches, stage, alive, pressed,
                   changes, inputs, scratch_prev, detector, results, feedback, select,
                   selected, session>>
    /\ UNCHANGED tvars

\* Paused -> Results: resume_audio leaves the audio paused
QuitGame ==
    /\ Transition("Paused", "Results")
    /\ UNCHANGED <<cvars, stage, queue, player, alive, hold_state, beat_count, pressed,
                   changes, inputs, scratch_prev, detector, results, feedback, score,
                   judged, resources, complete, ctx, sounds, select, selected, epoch,
                   session>>
    /\ UNCHANGED tvars

\* Playing -> Results at the end of the song
EnterResults ==
    /\ Transition("Playing", "Results")
    /\ feedback' = {}
    /\ UNCHANGED <<cvars, stage, queue, player, alive, hold_state, beat_count, pressed,
                   changes, inputs, scratch_prev, detector, results, score, judged,
                   resources, complete, ctx, sounds, select, selected, epoch, session>>
    /\ UNCHANGED tvars

\* Results -> SongSelect: cleanup_gameplay, then setup_song_select
LeaveResults ==
    /\ Transition("Results", "SongSelect")
    /\ cleanup_gameplay
    /\ select' = [selected_index |-> 0, selected_difficulty_index |-> 0]
    /\ UNCHANGED <<cvars, stage, queue, player, hold_state, beat_count, pressed, changes,
                   inputs, scratch_prev, detector, results, score, judged, complete,
                   selected, epoch, session>>
    /\ UNCHANGED tvars

\* ---- the systems of the screens ----
\* navigate_songs on the song select screen
NavigateSongs ==
    /\ screen = "SongSelect"
    /\ next_state = "Unchanged"
    /\ \E just \in SelectPresses :
          /\ ConfirmLoads(MoveCursor(select, just), just) => session.songs < MaxSongs
          /\ session' = [session EXCEPT
                            !.songs = IF ConfirmLoads(MoveCursor(select, just), just)
                                      THEN @ + 1 ELSE @,
                            !.just = just]
          /\ navigate_songs(just)
    /\ UNCHANGED <<cvars, pvars, complete, ctx, sounds, epoch>>
    /\ UNCHANGED tvars

\* the frame's conductor update during a session
SessionConductor ==
    /\ Stage("UpdateConductor", "SpawnNotes")
    /\ next_state = "Unchanged"
    /\ FrameInSync(SessionMaxTime)
    /\ UNCHANGED <<svars, screen, queue, player, alive, hold_state, beat_count, pressed,
                   changes, inputs, scratch_prev, detector, results, feedback, score,
                   judged>>
    /\ UNCHANGED tvars

\* detect_pause in a frame in which Back was pressed: the frame ends as any
\* other, and the writer of NextState that runs last decides the next screen
RenderAndPause ==
    /\ Stage("Render", "UpdateConductor")
    /\ session.pauses < MaxPauses
    /\ session' = [session EXCEPT !.pauses = @ + 1]
    /\ feedback' = {t - delta_secs : t \in {u \in feedback : u - delta_secs > 0}}
    /\ complete' = (complete \/ SongEnded)
    /\ next_state' \in (IF SongEnded THEN {"Paused", "Results"} ELSE {"Paused"})
    /\ UNCHANGED <<cvars, screen, queue, player, alive, hold_state, beat_count, pressed,
                   changes, inputs, scratch_prev, detector, results, score, judged,
                   resources, ctx, sounds, select, selected, epoch>>
    /\ UNCHANGED tvars

\* detect_pause while the Playing screen has no conductor: the systems of
\* the frame return early, Back still pauses
PauseIdle ==
    /\ screen = "Playing"
    /\ "SongConductor" \notin resources
    /\ next_state = "Unchanged"
    /\ session.pauses < MaxPauses
    /\ session' = [session EXCEPT !.pauses = @ + 1]
    /\ next_state' = "Paused"
    /\ UNCHANGED <<cvars, pvars, resources, complete, ctx, sounds, select, selected,
                   epoch>>
    /\ UNCHANGED tvars

\* handle_pause_input: Back or the Resume button, or the Quit button
HandlePauseInput ==
    /\ screen = "Paused"
    /\ next_state = "Unchanged"
    /\ next_state' \in {"Playing", "Results"}
    /\ UNCHANGED <<cvars, pvars, resources, complete, ctx, sounds, select, selected,
                   epoch, session>>
    /\ UNCHANGED tvars

\* dismiss_results: Confirm
DismissResults ==
    /\ screen = "Results"
    /\ next_state = "Unchanged"
    /\ next_state' = "SongSelect"
    /\ UNCHANGED <<cvars, pvars, resources, complete, ctx, sounds, select, selected,
                   epoch, session>>
    /\ UNCHANGED tvars

\* the game on the song select screen, before any song was played
InitSession ==
    /\ ToolsIdle
    /\ current_beat = 0
    /\ bpm = 120
    /\ playing = FALSE
    /\ time_samples = <<>>
    /\ slope = SlopeOf(120)
    /\ intercept = 0
    /\ timing_points = <<>>
    /\ drift_frames = 0
    /\ game_time = SongStart
    /\ delta_secs = 0
    /\ clock = 0
    /\ clock_speed = 120
    /\ audio_offset \in AudioOffsets
    /\ glitches = 0
    /\ last_path = "new"
    /\ drift_hist = <<>>
    /\ screen = "SongSelect"
    /\ stage = "UpdateConductor"
    /\ queue = NoQueue
    /\ player = SessionPlayer
    /\ alive = {}
    /\ hold_state = <<>>
    /\ beat_count = <<>>
    /\ pressed = {}
    /\ changes = 0
    /\ inputs = NoInputs
    /\ scratch_prev = NoDir
    /\ detector = NoDetector
    /\ results = <<>>
    /\ feedback = {}
    /\ score = init_score_state(<<>>)
    /\ judged = <<>>
    /\ next_state = "Unchanged"
    /\ resources = {}
    /\ complete = FALSE
    /\ ctx = NoCtx
    /\ sounds = <<>>
    /\ select = [selected_index |-> 0, selected_difficulty_index |-> 0]
    /\ selected = [song |-> 0, difficulty |-> 0]
    /\ epoch = 1
    /\ session = [pauses |-> 0, songs |-> 0, just |-> {}]

NextSession ==
    \/ NavigateSongs
    \/ EnterPlaying
    \/ SessionConductor
    \/ SpawnNotes
    \/ ReadInput
    \/ CheckHits
    \/ CheckHolds
    \/ DespawnMissed
    \/ UpdateScore
    \/ Render
    \/ RenderAndPause
    \/ PauseIdle
    \/ PauseGame
    \/ HandlePauseInput
    \/ ResumeGame
    \/ QuitGame
    \/ EnterResults
    \/ DismissResults
    \/ LeaveResults

SpecSession == InitSession /\ [][NextSession]_vars

(***************************************************************************)
(* Conductor claims                                                        *)
(***************************************************************************)
\* audio_beats as the last update computed it (bpm is read before any
\* timing-point change of that update)
AudioBeatsNow == AudioBeats(clock, bpm)

\* C1: across any sequence of conductor updates (warm-up, regression, hard
\* resync and timing-point frames included) current_beat never decreases.
C1_MonotonicBeat == [][current_beat' >= current_beat]_vars

\* C2: a hard resync happens exactly on the third consecutive regression
\* frame whose drift exceeds 50 ms (a regression frame within the threshold
\* restarts the count), and it leaves the window holding only the current
\* sample, slope = bpm/60, the intercept through that sample, the drift
\* counter at 0 and current_beat = audio_beats.
C2_DriftingNow ==
    Drifting(PredictedBeat(PushSample(time_samples, game_time',
                                      AudioBeats(clock', bpm)), game_time'),
             AudioBeats(clock', bpm), bpm)
C2_ResyncWhen ==
    last_path' \in {"regress", "drift", "resync"}
        => /\ (last_path' = "resync") <=> (drift_hist = <<TRUE, TRUE>> /\ C2_DriftingNow)
           /\ (~C2_DriftingNow) => drift_frames' = 0
C2_ResyncState ==
    last_path = "resync" =>
        /\ time_samples = << <<game_time, AudioBeatsNow>> >>
        /\ slope = SlopeOf(bpm)
        /\ slope * game_time + intercept = AudioBeatsNow * FixScale
        /\ drift_frames = 0
        /\ current_beat = AudioBeatsNow
C2_HardResync == [](C2_ResyncState) /\ [][C2_ResyncWhen]_vars
C2_Witness ==
    /\ last_path = "resync"
    /\ glitches >= 1
    /\ Len(time_samples) = 1
    /\ drift_frames = 0

\* C3: after every update that observed the audio clock no remaining timing
\* point has beat <= current_beat (warm-up and hard-resync frames and
\* several crossings in one frame included).
C3_TimingPointsConsumed ==
    last_path # "new" =>
        \A i \in 1..Len(timing_points) : timing_points[i].beat > current_beat

(***************************************************************************)
(* Hold, miss-detection and scoring claims                                 *)
(***************************************************************************)
IsHold(id) == NoteOf(id).kind = "Hold"
HeldNow(id) == id \in alive /\ IsHold(id) /\ hold_state[id] = "Held"
\* |current_beat - end_beat| is within ms milliseconds at the current bpm
TailWithin(id, ms) == Abs(current_beat - NoteOf(id).end_beat) * 600 <= ms * bpm
TailGrade(id) ==
    IF TailWithin(id, 20) THEN "Great" ELSE IF TailWithin(id, 50) THEN "Cool" ELSE "Good"
\* current_beat > beat + 100 ms at the current bpm
PastBy100ms(beat) == current_beat * 600 > beat * 600 + 100 * bpm
JudgedOnceMore(id, grade) == judged'[id] = Append(judged[id], grade)

\* C4: for a hold in Held state, on the frame in which Tap is not pressed
\* exactly one tail judgment is emitted and the hold is removed: within
\* 100 ms of end_beat with the timing grade of the difference, earlier than
\* that as Dropped with a Miss.
C4_Step ==
    \A id \in NoteIds :
        (stage = "CheckHolds" /\ stage' # stage /\ HeldNow(id) /\ "Tap" \notin pressed)
        => /\ id \notin alive'
           /\ Len(judged'[id]) = Len(judged[id]) + 1
           /\ TailWithin(id, 100)
                => (JudgedOnceMore(id, TailGrade(id)) /\ hold_state'[id] # "Dropped")
           /\ (~TailWithin(id, 100) /\ current_beat < NoteOf(id).end_beat)
                => (JudgedOnceMore(id, "Miss") /\ hold_state'[id] = "Dropped")
C4_HoldRelease == [][C4_Step]_vars
C4_Witness ==
    \E id \in NoteIds :
        /\ stage = "DespawnMissed" /\ "Tap" \notin pressed
        /\ IsHold(id) /\ id \notin alive /\ hold_state[id] = "Held"
        /\ Len(judged[id]) = 2 /\ judged[id][2] = "Cool"
C4_WitnessDropped ==
    \E id \in NoteIds :
        IsHold(id) /\ hold_state[id] = "Dropped" /\ Len(judged[id]) = 2
        /\ judged[id][2] = "Miss"

\* C5: a Held hold whose Tap stays pressed gets no tail judgment while
\* current_beat <= end_beat + 100 ms, and on the first frame beyond that it
\* emits exactly one Great and is despawned.
C5_Step ==
    \A id \in NoteIds :
        (HeldNow(id) /\ ("Tap" \in pressed \/ stage # "CheckHolds"))
        => IF stage = "CheckHolds" /\ stage' # stage
              /\ PastBy100ms(NoteOf(id).end_beat)
           THEN id \notin alive' /\ JudgedOnceMore(id, "Great")
           ELSE id \in alive' /\ judged'[id] = judged[id]
C5_HeldThrough == [][C5_Step]_vars
C5_Witness ==
    \E id \in NoteIds :
        /\ stage = "DespawnMissed" /\ "Tap" \in pressed
        /\ IsHold(id) /\ id \notin alive /\ hold_state[id] = "Held"
        /\ Len(judged[id]) = 2 /\ judged[id][2] = "Great"
        /\ PastBy100ms(NoteOf(id).end_beat)

\* C6: a hold's state only follows Pending -> Held -> Completed | Dropped,
\* never leaves a terminal state, and a hold in a terminal state is despawned
\* in the frame that put it there.
C6_Step ==
    \A id \in NoteIds :
        /\ hold_state'[id] # hold_state[id]
             => << hold_state[id], hold_state'[id] >> \in
                  { <<"None", "Pending">>, <<"Pending", "Held">>,
                    <<"Held", "Completed">>, <<"Held", "Dropped">> }
        /\ hold_state'[id] \in {"Completed", "Dropped"} => id \notin alive'
        /\ (IsHold(id) /\ id \in alive /\ id \notin alive' /\ hold_state[id] = "Held")
             => stage = "CheckHolds"
C6_HoldStates == [][C6_Step]_vars
C6_Witness == C4_WitnessDropped /\ stage = "UpdateScore"

\* C7: a hold still Pending when current_beat > target_beat + MISS_WINDOW is
\* despawned with exactly two Misses; a Held hold is never judged or
\* despawned by miss detection.
C7_Step ==
    \A id \in NoteIds :
        (stage = "DespawnMissed" /\ stage' # stage /\ id \in alive /\ IsHold(id))
        => /\ (hold_state[id] = "Pending" /\ PastBy100ms(NoteOf(id).target_beat))
                => /\ id \notin alive'
                   /\ judged[id] = <<>>
                   /\ judged'[id] = << "Miss", "Miss" >>
           /\ hold_state[id] = "Held"
                => (id \in alive' /\ judged'[id] = judged[id])
C7_NoPendingLeft ==
    stage \in {"UpdateScore", "Render"} =>
        \A id \in alive :
            (IsHold(id) /\ PastBy100ms(NoteOf(id).target_beat))
                => hold_state[id] = "Held"
C7_MissedHold == [](C7_NoPendingLeft) /\ [][C7_Step]_vars
C7_Witness ==
    \E id \in NoteIds :
        /\ stage = "UpdateScore" /\ IsHold(id) /\ id \notin alive
        /\ hold_state[id] = "Pending" /\ judged[id] = << "Miss", "Miss" >>
        /\ \E o \in alive : HeldNow(o) /\ PastBy100ms(NoteOf(o).target_beat)

\* C8 (as claimed): every live note that is not a hold, AdLib included, is
\* despawned with exactly one Miss on the first frame in which
\* current_beat > target_beat + MISS_WINDOW.
C8_StepAsClaimed ==
    \A id \in NoteIds :
        (stage = "DespawnMissed" /\ stage' # stage /\ id \in alive /\ ~IsHold(id)
         /\ PastBy100ms(NoteOf(id).target_beat))
        => (id \notin alive' /\ JudgedOnceMore(id, "Miss"))
C8_Step ==
    \A id \in NoteIds :
        (stage = "DespawnMissed" /\ stage' # stage /\ id \in alive /\ ~IsHold(id)
         /\ PastBy100ms(NoteOf(id).target_beat))
        => /\ id \notin alive'
           /\ IF NoteOf(id).kind = "AdLib"
              THEN judged'[id] = judged[id]
              ELSE JudgedOnceMore(id, "Miss")
C8_NoneLeft ==
    stage \in {"UpdateScore", "Render"} =>
        \A id \in alive : PastBy100ms(NoteOf(id).target_beat) => IsHold(id)
C10_ScoreUpperBound == total_score(score) <= 1000000
C10_Witness ==
    /\ score.total_notes > 0
    /\ score.max_chain > score.total_notes
    /\ score.great_count = score.total_notes
    /\ total_score(score) = 1000000

\* C11: a non-Miss judgment advances chain by 1 when chain < 10 before it, by
\* 2 when 10 <= chain < 100 and by 4 when chain >= 100; a Miss sets chain to
\* 0; from 0, consecutive non-misses give 1, 2, ..., 9, 10, 12.
C11_Step ==
    /\ NonMisses(score') = NonMisses(score) + 1
         => score'.chain = score.chain + (IF score.chain < 10 THEN 1
                                          ELSE IF score.chain < 100 THEN 2 ELSE 4)
    /\ score'.miss_count = score.miss_count + 1 => score'.chain = 0
C11_FromZero ==
    score.miss_count = 0 =>
        /\ NonMisses(score) <= 10 => score.chain = NonMisses(score)
        /\ NonMisses(score) = 11 => score.chain = 12
C11_ChainAdvance == [](C11_FromZero) /\ [][C11_Step]_vars
C11_Witness == score.chain = 104 /\ score.miss_count = 1

\* C12: in every reachable score state chain <= max_chain, and max_chain
\* never decreases during a song.
C12_ChainBelowMax == score.chain <= score.max_chain
C12_MaxChain == [](C12_ChainBelowMax) /\ [][score'.max_chain >= score.max_chain]_vars
C12_Witness ==
    /\ score.miss_count = 1
    /\ score.chain = 1
    /\ score.max_chain = 12

\* C13: if great_count = total_notes and max_chain = total_notes, with
\* total_notes >= 1, then total_score() is exactly 1,000,000 and the rank
\* is S++.
C13_PerfectPlay ==
    (score.total_notes >= 1 /\ score.great_count = score.total_notes
     /\ score.max_chain = score.total_notes)
        => (total_score(score) = 1000000 /\ grade_rank(score) = "S++")
C13_Witness ==
    /\ score.total_notes = 7
    /\ score.great_count = 7
    /\ score.max_chain = 7
    /\ score.score = 850003

\* the hit check of a frame, and the notes of the given kinds it judges
HitNow == stage = "CheckHits" /\ stage' # stage
C14_Readers == {"critical", "dual", "scratch", "tap", "slide"}
C14_Consumed(kinds) ==
    {id \in alive : NoteOf(id).kind \in kinds /\ judged'[id] # judged[id]}
C14_Near(msg, id) == Abs(msg.beat - NoteOf(id).target_beat)
C14_Eligible(reader, msg) ==
    {id \in alive :
        /\ C14_Near(msg, id) * 600 <= 100 * bpm
        /\ CASE reader = "critical" -> NoteOf(id).kind = "Critical"
             [] reader = "scratch" -> NoteOf(id).kind = "Scratch"
             [] reader = "slide" -> /\ NoteOf(id).kind = "Slide"
                                    /\ NoteOf(id).dir = msg.direction
             [] reader = "dual" -> /\ NoteOf(id).kind = "DualSlide"
                                   /\ {NoteOf(id).dir, NoteOf(id).dir2}
                                        = {msg.dir_a, msg.dir_b}
             [] reader = "tap" -> \/ NoteOf(id).kind \in {"Tap", "AdLib"}
                                  \/ /\ NoteOf(id).kind = "Hold"
                                     /\ hold_state[id] = "Pending"}

\* C14 (as claimed): within one frame's hit check each input event consumes
\* at most one note of the kinds its input can hit.
C14_KindsHitBy(reader) ==
    CASE reader = "critical" -> {"Critical"}
      [] reader = "scratch" -> {"Scratch"}
      [] reader = "slide" -> {"Slide"}
      [] reader = "dual" -> {"DualSlide"}
      [] reader = "tap" -> {"Tap", "AdLib", "Hold", "Beat"}
C14_NearestKinds(reader) == C14_KindsHitBy(reader) \ {"Beat"}
C14_Step ==
    HitNow =>
        /\ \A r \in C14_Readers :
              LET C == C14_Consumed(C14_NearestKinds(r)) IN
              /\ Len(inputs[r]) <= 1
              /\ inputs[r] = <<>> => C = {}
              /\ inputs[r] # <<>> =>
                    LET E == C14_Eligible(r, inputs[r][1]) IN
                    /\ C \subseteq E
                    /\ Cardinality(C) <= 1
                    /\ E # {} => C # {}
                    /\ \A c \in C : \A e \in E :
                          C14_Near(inputs[r][1], c) <= C14_Near(inputs[r][1], e)
        /\ \A id \in alive :
              NoteOf(id).kind = "Beat" =>
                 (judged'[id] # judged[id]
                    <=> /\ inputs.tap # <<>>
                        /\ C14_Near(inputs.tap[1], id) * 600 <= 100 * bpm
                        /\ beat_count[id].count >= 1)
        /\ \A id \in NoteIds : Len(judged'[id]) <= Len(judged[id]) + 1
C14_WitnessNearest ==
    /\ stage = "CheckHolds"
    /\ Len(results) = 1
    /\ \E a \in alive : \E b \in alive :
          /\ hold_state[a] = "Held" /\ judged[a] = << "Great" >>
          /\ hold_state[b] = "Pending"
          /\ Abs(current_beat - NoteOf(b).target_beat) * 600 <= 100 * bpm

(***************************************************************************)
(* Session claims                                                          *)
(***************************************************************************)
C15_QueueSorted ==
    \A i \in 1..(Len(queue.notes) - 1) :
        queue.notes[i].target_beat <= queue.notes[i + 1].target_beat
C15_CursorInRange == queue.next_index \in 0..Len(queue.notes)
C15_SpawnedPrefix == alive \subseteq {EntityOf(i) : i \in 1..queue.next_index}
C15_Step ==
    ("NoteQueue" \in resources /\ "NoteQueue" \in resources') =>
        /\ queue'.next_index >= queue.next_index
        /\ alive' \ alive =
              IF queue'.next_index > queue.next_index
              THEN {EntityOf(i) : i \in (queue.next_index + 1)..(queue'.next_index)}
              ELSE {}

\* C15: while a song's note queue exists its target beats are nondecreasing,
\* its cursor next_index lies within 0..len and never decreases, every step
\* spawns exactly the notes the cursor passes, and the live notes all lie in
\* the prefix below the cursor.
C15_QueueCursor ==
    /\ [](("NoteQueue" \in resources) =>
            (C15_QueueSorted /\ C15_CursorInRange /\ C15_SpawnedPrefix))
    /\ [][C15_Step]_vars

C16_NextStage ==
    [s \in {"UpdateConductor", "SpawnNotes", "ReadInput", "CheckHits", "CheckHolds",
            "DespawnMissed", "UpdateScore", "Render"} |->
        CASE s = "UpdateConductor" -> "SpawnNotes"
          [] s = "SpawnNotes" -> "ReadInput"
          [] s = "ReadInput" -> "CheckHits"
          [] s = "CheckHits" -> "CheckHolds"
          [] s = "CheckHolds" -> "DespawnMissed"
          [] s = "DespawnMissed" -> "UpdateScore"
          [] s = "UpdateScore" -> "Render"
          [] s = "Render" -> "UpdateConductor"]
C16_Count(msgs, grade) == Cardinality({i \in 1..Len(msgs) : msgs[i] = grade})
RECURSIVE C16_Emitted(_)
C16_Emitted(ids) ==
    IF ids = {} THEN 0
    ELSE LET id == CHOOSE i \in ids : TRUE
         IN Len(judged[id]) + C16_Emitted(ids \ {id})
\* the chain after the judgments of a frame, taken in the order given
RECURSIVE C16_Chain(_, _)
C16_Chain(c, msgs) ==
    IF msgs = <<>> THEN c
    ELSE C16_Chain(IF Head(msgs) = "Miss" THEN 0
                   ELSE IF c >= 100 THEN c + 4
                   ELSE IF c >= 10 THEN c + 2
                   ELSE c + 1,
                   Tail(msgs))
C16_Pending ==
    /\ stage \notin {"CheckHolds", "DespawnMissed", "UpdateScore"} => results = <<>>
    /\ notes_judged(score) + Len(results) = C16_Emitted(DOMAIN judged)
C16_Step ==
    /\ stage' # stage => stage' = C16_NextStage[stage]
    /\ stage' # stage /\ stage # "UpdateScore" =>
          /\ score' = score
          /\ Len(results') >= Len(results)
          /\ SubSeq(results', 1, Len(results)) = results
    /\ stage' # stage /\ stage = "UpdateScore" =>
          /\ results' = <<>>
          /\ score'.great_count = score.great_count + C16_Count(results, "Great")
          /\ score'.cool_count = score.cool_count + C16_Count(results, "Cool")
          /\ score'.good_count = score.good_count + C16_Count(results, "Good")
          /\ score'.miss_count = score.miss_count + C16_Count(results, "Miss")
          /\ score'.chain = C16_Chain(score.chain, results)

\* C16: every frame of the Playing screen runs the stages in the order
\* conductor, spawn, input, hit check (hits, holds, auto-miss), score, render;
\* judgments are only appended between the hit check and the score stage, and
\* the score stage applies each of them once, in emission order, and leaves
\* none pending for a later frame.
C16_FramePipeline == [](C16_Pending) /\ [][C16_Step]_vars
C16_Witness ==
    /\ stage = "Render"
    /\ results = <<>>
    /\ score.miss_count >= 1
    /\ score.great_count + score.cool_count + score.good_count >= 1
    /\ score.chain = 0
    /\ score.max_chain >= 1

C17_ResourcesGone ==
    resources \cap {"SongConductor", "NoteQueue", "ScoreState", "SplinePath"} = {}
C17_AudioStopped ==
    /\ ctx.clock = "None"
    /\ \A i \in 1..Len(sounds) : sounds[i] = "Stopped"

\* C17: whenever the game is in SongSelect, the conductor, note queue, score
\* state and spline of a song that was left do not exist, no note entity is
\* live, and the audio clock and every song sound started are stopped.
C17_TornDown ==
    screen = "SongSelect" => (C17_ResourcesGone /\ alive = {} /\ C17_AudioStopped)

\* C18: the game is never in Playing without the conductor, the note queue
\* and the spline of the selected chart; a chart with fewer than 4 path
\* control points does not get the game into Playing.
C18_PlayingHasSong ==
    screen = "Playing" => {"SongConductor", "NoteQueue", "SplinePath"} \subseteq resources

C19_LoadFailed ==
    /\ screen = "SongSelect"
    /\ next_state = "Unchanged"
    /\ "Confirm" \in session'.just
    /\ select'.selected_difficulty_index < Len(available_difficulties(select'))
    /\ ~load_chart(select'.selected_index, select'.selected_difficulty_index).ok
C19_Step ==
    C19_LoadFailed =>
        /\ "SelectedSong" \notin resources'
        /\ resources' = resources
        /\ next_state' = "Unchanged"
        /\ screen' = "SongSelect"
        /\ session'.just = {"Confirm"} => select' = select
        /\ select' = MoveCursor(select, session'.just \ {"Confirm"})

\* C19: a frame of song select in which Confirm is pressed on a chart that
\* fails to load creates no SelectedSong, requests no screen change (the
\* screen stays SongSelect) and leaves the selection indices as they were
\* (as the direction keys of that frame, if any, set them).
C19_FailedLoadStays == [][C19_Step]_vars
C19_Witness ==
    /\ screen = "SongSelect"
    /\ session.just = {"Right", "Confirm"}
    /\ select = [selected_index |-> 0, selected_difficulty_index |-> 1]
    /\ "SelectedSong" \notin resources
    /\ next_state = "Unchanged"
    /\ session.songs = 1

(***************************************************************************)
(* Conductor warm-up                                                       *)
(***************************************************************************)
\* the time spanned by the sample window once this update's sample is pushed
C20_Span ==
    LET kept == IF Len(time_samples) >= MAX_SAMPLES THEN Tail(time_samples)
                ELSE time_samples
    IN IF kept = <<>> THEN 0 ELSE game_time' - kept[1][1]
C20_Step ==
    (game_time' # game_time /\ C20_Span < MIN_REGRESSION_SPAN) =>
        /\ current_beat' = IF AudioBeats(clock', bpm) > current_beat
                           THEN AudioBeats(clock', bpm) ELSE current_beat
        /\ slope' = (bpm * FixScale) \div 60
        /\ drift_frames' = drift_frames
        /\ timing_points' = timing_points

\* C20: an update whose sample window spans less than MIN_REGRESSION_SPAN
\* applies no regression: current_beat becomes the larger of the previous
\* beat and the raw audio beats, slope becomes bpm/60, and the drift counter
\* and the timing-point list keep their values.
C20_WarmupTracksAudio == [][C20_Step]_vars
C20_Witness ==
    /\ last_path = "warmup"
    /\ current_beat > AudioBeats(clock, bpm)
    /\ timing_points # <<>>

(***************************************************************************)
(* Rest notes and the order of the hit check                               *)
(***************************************************************************)
C21_Passed(id) ==
    /\ id \in alive
    /\ NoteOf(id).kind = "Rest"
    /\ stage = "DespawnMissed"
    /\ stage' = "UpdateScore"
    /\ current_beat * 600 > NoteOf(id).target_beat * 600 + MISS_WINDOW_MS * bpm
C21_Step ==
    \A id \in NoteIds :
        /\ C21_Passed(id) =>
              /\ id \notin alive'
              /\ judged[id] = <<>>
              /\ judged'[id] = << "Great" >>
              /\ Len(results') = Len(results) + Cardinality(alive \ alive')
        /\ (NoteOf(id).kind = "Rest" /\ judged'[id] # judged[id]
            /\ judged'[id][Len(judged'[id])] = "Miss") =>
              (stage = "CheckHits" /\ inputs.tap # <<>>)

C22_Judged == {id \in NoteIds : judged'[id] # judged[id]}
C22_New == SubSeq(results', Len(results) + 1, Len(results'))
C22_InOrder(rank) ==
    (stage = "CheckHits" /\ stage' = "CheckHolds") =>
        \E f \in [1..Len(C22_New) -> C22_Judged] :
            /\ \A id \in C22_Judged : \E k \in 1..Len(C22_New) : f[k] = id
            /\ \A k \in 1..Len(C22_New) :
                  C22_New[k] = judged'[f[k]][Len(judged'[f[k]])]
            /\ \A k \in 1..(Len(C22_New) - 1) :
                  rank[NoteOf(f[k]).kind] <= rank[NoteOf(f[k + 1]).kind]
C22_Kinds ==
    {"Critical", "DualSlide", "Scratch", "Tap", "AdLib", "Hold", "Beat", "Rest", "Slide"}
C22_RankClaimed ==
    [k \in C22_Kinds |->
        CASE k = "Critical" -> 1
          [] k \in {"Slide", "DualSlide", "Scratch"} -> 2
          [] OTHER -> 3]
C22_RankRead ==
    [k \in C22_Kinds |->
        CASE k = "Critical" -> 1
          [] k = "DualSlide" -> 2
          [] k = "Scratch" -> 3
          [] k = "Slide" -> 5
          [] OTHER -> 4]
BeatUnit == 8 * 4
MaxOnsets == 3

\* raw beat positions of the detected onsets (BeatGrid::time_to_beat of the
\* onset times, which increase) and their strengths
RawBeats == {-5, 0, 3, 4, 12, 16, 18, 32, 126, 128, 256, 260, 384}
Strengths == {20, 50, 95}
Difficulties == {"Easy", "Normal", "Hard", "Expert"}

RECURSIVE OnsetsOf(_, _)
OnsetsOf(raws, strength) ==
    IF raws = {} THEN <<>>
    ELSE LET first == CHOOSE r \in raws : \A q \in raws : r <= q
         IN << [raw |-> first, strength |-> strength[first]] >>
            \o OnsetsOf(raws \ {first}, strength)

grid_resolution(d) ==
    CASE d = "Easy" -> 1 [] d = "Normal" -> 2 [] d = "Hard" -> 4 [] d = "Expert" -> 8
\* importance_percentile, in percent
importance_percentile(d) ==
    CASE d = "Easy" -> 80 [] d = "Normal" -> 50 [] d = "Hard" -> 20 [] d = "Expert" -> 0

\* ---- quantize.rs ----
\* (raw_beat / grid_step).round() * grid_step; the rounding to four decimals
\* that follows leaves a multiple of 1/8 as it is
Snap(raw, g) ==
    LET grid_step == BeatUnit \div g
    IN ((2 * raw + grid_step) \div (2 * grid_step)) * grid_step

RECURSIVE Snapped(_, _)
Snapped(onsets, g) ==
    IF onsets = <<>> THEN <<>>
    ELSE (IF Head(onsets).raw < 0 THEN <<>>
          ELSE << [beat |-> Snap(Head(onsets).raw, g),
                   strength |-> Head(onsets).strength] >>)
         \o Snapped(Tail(onsets), g)

\* notes.sort_by on the beat: a stable sort
RECURSIVE SortNotes(_)
SortNotes(notes) ==
    IF notes = <<>> THEN <<>>
    ELSE LET sorted == SortNotes(SubSeq(notes, 1, Len(notes) - 1))
             n == notes[Len(notes)]
             k == Cardinality({i \in 1..Len(sorted) : sorted[i].beat <= n.beat})
         IN SubSeq(sorted, 1, k) \o << n >> \o SubSeq(sorted, k + 1, Len(sorted))

\* notes.dedup_by: a note on the beat of the one kept before it is dropped,
\* and the kept one takes its strength when that is greater (the variant
\* before Dedup leaves the kept one as it was)
RECURSIVE DedupKeepsFirst(_)
DedupKeepsFirst(notes) ==
    IF Len(notes) <= 1 THEN notes
    ELSE LET d == DedupKeepsFirst(SubSeq(notes, 1, Len(notes) - 1))
             b == notes[Len(notes)]
         IN IF d[Len(d)].beat = b.beat THEN d ELSE d \o << b >>
RECURSIVE Dedup(_)
Dedup(notes) ==
    IF Len(notes) <= 1 THEN notes
    ELSE LET d == Dedup(SubSeq(notes, 1, Len(notes) - 1))
             a == d[Len(d)]
             b == notes[Len(notes)]
         IN IF a.beat = b.beat
            THEN [d EXCEPT ![Len(d)].strength = IF b.strength > a.strength
                                                 THEN b.strength ELSE @]
            ELSE d \o << b >>

quantize_onsets(onsets, g) == Dedup(SortNotes(Snapped(onsets, g)))

\* ---- difficulty.rs ----
\* the beat weight, times ten
compute_beat_weight(beat) ==
    LET frac == beat % BeatUnit
        whole == (beat + BeatUnit \div 2) \div BeatUnit
    IN IF frac * 100 < BeatUnit \/ frac * 100 > 99 * BeatUnit
       THEN (IF whole % 4 = 0 THEN 10 ELSE 8)
       ELSE IF Abs(2 * frac - BeatUnit) * 50 < BeatUnit THEN 5 ELSE 3

Scored(notes) ==
    [i \in 1..Len(notes) |->
        [beat |-> notes[i].beat, strength |-> notes[i].strength,
         importance |-> notes[i].strength * compute_beat_weight(notes[i].beat)]]

\* importances sorted, the one at index floor(len * percentile)
Threshold(scored, d) ==
    LET idx == (Len(scored) * importance_percentile(d)) \div 100
    IN CHOOSE v \in {scored[i].importance : i \in 1..Len(scored)} :
          /\ Cardinality({i \in 1..Len(scored) : scored[i].importance < v}) <= idx
          /\ idx < Cardinality({i \in 1..Len(scored) : scored[i].importance <= v})

Retained(scored, d) ==
    IF importance_percentile(d) > 0
    THEN SelectSeq(scored, LAMBDA n : n.importance >= Threshold(scored, d))
    ELSE scored

min_interval(d) ==
    CASE d = "Easy" -> BeatUnit [] d = "Normal" -> BeatUnit \div 2
      [] d = "Hard" -> BeatUnit \div 4 [] d = "Expert" -> BeatUnit \div 8

RemoveAt(s, i) == SubSeq(s, 1, i - 1) \o SubSeq(s, i + 1, Len(s))

\* the loop removing the weaker of two notes closer than min_interval - 0.001;
\* i is the position of notes[i] counted from one
RECURSIVE RemoveClose(_, _, _)
RemoveClose(notes, i, min) ==
    IF i > Len(notes) THEN notes
    ELSE IF (notes[i].beat - notes[i - 1].beat) * 1000 < min * 1000 - BeatUnit
         THEN (IF notes[i].importance < notes[i - 1].importance
               THEN RemoveClose(RemoveAt(notes, i), i, min)
               ELSE RemoveClose(RemoveAt(notes, i - 1), i, min))
         ELSE RemoveClose(notes, i + 1, min)

\* slice::partition_point(|n| n.beat < beat): the binary search of the
\* standard library, in its form with two ends and in its form with a base
\* and a size (positions counted from zero); on a sorted slice both end at
\* the one position that parts it, on an unsorted one the build decides
RECURSIVE BinarySearch(_, _, _, _)
BinarySearch(notes, beat, left, right) ==
    IF left >= right THEN left
    ELSE LET mid == left + (right - left) \div 2
         IN IF notes[mid + 1].beat < beat
            THEN BinarySearch(notes, beat, mid + 1, right)
            ELSE BinarySearch(notes, beat, left, mid)
RECURSIVE BinarySearchBase(_, _, _, _)
BinarySearchBase(notes, beat, base, size) ==
    IF size <= 1 THEN base
    ELSE LET half == size \div 2
         IN BinarySearchBase(notes, beat,
                             IF notes[base + half + 1].beat < beat THEN base + half ELSE base,
                             size - half)
PartitionPoints(notes, beat) ==
    IF notes = <<>> THEN {0}
    ELSE LET base == BinarySearchBase(notes, beat, 0, Len(notes))
         IN {BinarySearch(notes, beat, 0, Len(notes)),
             base + (IF notes[base + 1].beat < beat THEN 1 ELSE 0)}

\* has_note of a measure (the variant before it misses a note on the
\* measure's first beat)
HasNoteAfterStart(notes, measure_start) ==
    \E i \in 1..Len(notes) :
        notes[i].beat > measure_start /\ notes[i].beat < measure_start + 4 * BeatUnit
HasNote(notes, measure_start) ==
    \E i \in 1..Len(notes) :
        notes[i].beat >= measure_start /\ notes[i].beat < measure_start + 4 * BeatUnit

RECURSIVE FillMeasures(_, _, _, _)
FillMeasures(notes, first_beat, measure, total_measures) ==
    IF measure >= total_measures THEN notes
    ELSE LET measure_start == first_beat + measure * 4 * BeatUnit
             pos == CHOOSE k \in PartitionPoints(notes, measure_start) : TRUE
             filled ==
                 IF HasNote(notes, measure_start) THEN notes
                 ELSE SubSeq(notes, 1, pos)
                      \o << [beat |-> measure_start, strength |-> 50, importance |-> 500] >>
                      \o SubSeq(notes, pos + 1, Len(notes))
         IN FillMeasures(filled, first_beat, measure + 1, total_measures)

apply_post_filter_rules(notes, d) ==
    IF notes = <<>> THEN notes
    ELSE LET spaced == RemoveClose(notes, 2, min_interval(d))
             span == spaced[Len(spaced)].beat - spaced[1].beat
         IN IF Len(spaced) >= 2
            THEN FillMeasures(spaced, spaced[1].beat, 0,
                              (span + 4 * BeatUnit - 1) \div (4 * BeatUnit))
            ELSE spaced

filter_by_difficulty(notes, d) ==
    IF notes = <<>> THEN <<>>
    ELSE apply_post_filter_rules(Retained(Scored(notes), d), d)

\* ---- note_types.rs ----
\* pseudo_random: xorshift64 (shifts 13, 7, 17) from the seed 42; the table
\* holds the successive states modulo 200, from which roll = state % 100 and
\* the low three bits are read; calls counts the calls made so far
Rolls ==
    << 74, 71, 154, 136, 162, 27, 75, 114, 136, 157, 7, 188, 83, 13, 65, 111,
       172, 117, 191, 52, 119, 34, 156, 132, 95, 129, 5, 34, 146, 28, 81, 59 >>
pseudo_random(calls) == Rolls[calls + 1]

SlideDirections == << "N", "NE", "E", "SE", "S", "SW", "W", "NW" >>
Xor8(a, b) ==
    ((a + b) % 2) + 2 * (((a \div 2) + (b \div 2)) % 2) + 4 * (((a \div 4) + (b \div 4)) % 2)
pick_slide_direction(seed, calls) ==
    SlideDirections[Xor8(((seed * 1000) \div BeatUnit) % 8, pseudo_random(calls) % 8) + 1]

is_downbeat(beat) ==
    LET frac == beat % BeatUnit
    IN frac * 100 < BeatUnit \/ frac * 100 > 99 * BeatUnit
is_rapid_pair(notes, idx) ==
    idx + 1 <= Len(notes) /\ (notes[idx + 1].beat - notes[idx].beat) * 100 <= 26 * BeatUnit

\* (gap * 0.75).min(2.0).max(0.5), or one beat for the last note
hold_duration(notes, idx) ==
    IF idx + 1 <= Len(notes)
    THEN Max(Min(((notes[idx + 1].beat - notes[idx].beat) * 3) \div 4, 2 * BeatUnit),
             BeatUnit \div 2)
    ELSE BeatUnit

Picked(note_type, duration_beats, direction, calls) ==
    [note_type |-> note_type, duration_beats |-> duration_beats,
     direction |-> direction, calls |-> calls]
PickedSlide(beat, calls) ==
    Picked("Slide", 0, pick_slide_direction(beat, calls), calls + 1)

pick_note_type(notes, idx, d, calls) ==
    LET note == notes[idx]
        roll == pseudo_random(calls) % 100
        hold == hold_duration(notes, idx)
    IN CASE d = "Easy" ->
              IF note.strength > 80 /\ is_downbeat(note.beat)
              THEN Picked("Hold", hold, NoDir, calls)
              ELSE Picked("Tap", 0, NoDir, calls)
         [] d = "Normal" ->
              IF note.strength > 80 /\ is_downbeat(note.beat)
              THEN Picked("Hold", hold, NoDir, calls + 1)
              ELSE IF roll < 15 THEN PickedSlide(note.beat, calls + 1)
              ELSE Picked("Tap", 0, NoDir, calls + 1)
         [] d = "Hard" ->
              IF note.strength > 85 /\ is_downbeat(note.beat)
              THEN (IF roll < 40 THEN Picked("Critical", 0, NoDir, calls + 1)
                    ELSE Picked("Hold", hold, NoDir, calls + 1))
              ELSE IF is_rapid_pair(notes, idx) THEN Picked("Tap", 0, NoDir, calls + 1)
              ELSE IF roll < 25 THEN PickedSlide(note.beat, calls + 1)
              ELSE Picked("Tap", 0, NoDir, calls + 1)
         [] d = "Expert" ->
              IF note.strength > 90 /\ is_downbeat(note.beat)
              THEN (IF roll < 30 THEN Picked("Critical", 0, NoDir, calls + 1)
                    ELSE Picked("Hold", hold, NoDir, calls + 1))
              ELSE IF is_rapid_pair(notes, idx) THEN Picked("Tap", 0, NoDir, calls + 1)
              ELSE IF roll < 28 THEN PickedSlide(note.beat, calls + 1)
              ELSE IF roll < 33 THEN Picked("Critical", 0, NoDir, calls + 1)
              ELSE IF roll < 38 /\ note.strength < 30 THEN Picked("Rest", 0, NoDir, calls + 1)
              ELSE Picked("Tap", 0, NoDir, calls + 1)

RECURSIVE AssignFrom(_, _, _, _)
AssignFrom(notes, idx, d, calls) ==
    IF idx > Len(notes) THEN <<>>
    ELSE LET p == pick_note_type(notes, idx, d, calls)
         IN << [beat |-> notes[idx].beat, note_type |-> p.note_type,
                duration_beats |-> p.duration_beats, direction |-> p.direction] >>
            \o AssignFrom(notes, idx + 1, d, p.calls)
assign_note_types(notes, d) == AssignFrom(notes, 1, d, 0)

\* ---- main.rs: one difficulty's chart ----
\* the game does not run while a tool does
GameAtRest ==
    /\ InitConductor
    /\ bpm = 120
    /\ timing_points = <<>>
    /\ audio_offset = 0
    /\ InitIdle

InitGen ==
    /\ GameAtRest
    /\ editor = NoEditor
    /\ \E raws \in SUBSET RawBeats : \E d \in Difficulties :
          /\ Cardinality(raws) <= MaxOnsets
          /\ \E strength \in [raws -> Strengths] :
                gen = [NoGen EXCEPT !.pc = "quantize", !.difficulty = d,
                                    !.onsets = OnsetsOf(raws, strength)]

Quantize ==
    /\ gen.pc = "quantize"
    /\ gen' = [gen EXCEPT !.pc = "filter",
                          !.quantized = quantize_onsets(gen.onsets,
                                                        grid_resolution(gen.difficulty))]
    /\ UNCHANGED <<cvars, pvars, svars, editor>>
Filter ==
    /\ gen.pc = "filter"
    /\ gen' = [gen EXCEPT !.pc = "types",
                          !.filtered = filter_by_difficulty(gen.quantized, gen.difficulty)]
    /\ UNCHANGED <<cvars, pvars, svars, editor>>
AssignTypes ==
    /\ gen.pc = "types"
    /\ gen' = [gen EXCEPT !.pc = "done",
                          !.entries = assign_note_types(gen.filtered, gen.difficulty)]
    /\ UNCHANGED <<cvars, pvars, svars, editor>>

NextGen == Quantize \/ Filter \/ AssignTypes

SpecGen == InitGen /\ [][NextGen]_vars

(***************************************************************************)
(* The chart generator's claims                                            *)
(***************************************************************************)
C23_MinGap ==
    [d \in Difficulties |->
        CASE d = "Easy" -> 32 [] d = "Normal" -> 16 [] d = "Hard" -> 8 [] d = "Expert" -> 4]
\* C23: in the list the difficulty filter returns, consecutive notes are at
\* least the difficulty's minimum gap apart (Easy 1, Normal 1/2, Hard 1/4,
\* Expert 1/8 beat), the notes inserted into empty measures included.
C23_FilteredSpacing ==
    gen.pc \in {"types", "done"} =>
        \A i \in 1..(Len(gen.filtered) - 1) :
            gen.filtered[i + 1].beat - gen.filtered[i].beat >= C23_MinGap[gen.difficulty]
C23_Witness ==
    /\ gen.pc = "types"
    /\ Len(gen.filtered) >= 3
    /\ \E i \in 2..(Len(gen.filtered) - 1) :
          /\ \A k \in 1..Len(gen.quantized) : gen.quantized[k].beat # gen.filtered[i].beat
          /\ gen.filtered[i].importance = 500

C24_Step == BeatUnit \div grid_resolution(gen.difficulty)
C24_SnapsTo(raw, beat) ==
    raw >= 0 /\ 2 * beat - C24_Step <= 2 * raw /\ 2 * raw < 2 * beat + C24_Step
\* C24: every beat that quantize_onsets returns is a multiple of 1/g, no two
\* of the notes share a grid position, and of the onsets that snap to one
\* position the survivor carries the greatest strength.
C24_Quantized ==
    gen.pc # "quantize" =>
        /\ \A i \in 1..Len(gen.quantized) : gen.quantized[i].beat % C24_Step = 0
        /\ \A i \in 1..Len(gen.quantized) : \A j \in 1..Len(gen.quantized) :
              i # j => gen.quantized[i].beat # gen.quantized[j].beat
        /\ \A k \in 1..Len(gen.onsets) :
              gen.onsets[k].raw >= 0 =>
                 \E i \in 1..Len(gen.quantized) :
                    /\ C24_SnapsTo(gen.onsets[k].raw, gen.quantized[i].beat)
                    /\ gen.quantized[i].strength >= gen.onsets[k].strength
        /\ \A i \in 1..Len(gen.quantized) : \E k \in 1..Len(gen.onsets) :
              /\ C24_SnapsTo(gen.onsets[k].raw, gen.quantized[i].beat)
              /\ gen.quantized[i].strength = gen.onsets[k].strength
C24_Witness ==
    /\ gen.pc = "filter"
    /\ Len(gen.onsets) = 3
    /\ gen.onsets[1].strength < gen.onsets[3].strength
    /\ gen.onsets[3].strength < gen.onsets[2].strength
    /\ Len(gen.quantized) = 1
    /\ gen.quantized[1].strength = gen.onsets[2].strength

\* C30: every Hold the generator emits ends strictly before the next note
\* begins: beat + duration_beats is less than the beat of the note after it.
C30_HoldEndsBeforeNext ==
    gen.pc = "done" =>
        \A i \in 1..(Len(gen.entries) - 1) :
            gen.entries[i].note_type = "Hold" =>
                gen.entries[i].beat + gen.entries[i].duration_beats < gen.entries[i + 1].beat

(***************************************************************************)
(* The chart editor (editor/actions.rs, editor/mod.rs): the chart, the     *)
(* undo stack and the redo stack. Beats in 0.5e-6 beat, so that two beats  *)
(* closer than 1e-6 are less than two units apart.                         *)
(***************************************************************************)
MaxEdits == 3

\* beats at which the cursor places a note (beat 1, just before beat 4,
\* beat 4, beat 8), the note brushes used and the points clicked
EditorBeats == {2000000, 7999999, 8000000, 16000000}
Brushes == {"Tap", "Slide"}
ClickPoints == { <<0, 0>>, <<3, 4>> }

NoteEntry(beat, note_type) == [beat |-> beat, note_type |-> note_type]

\* the charts opened: one whose notes are in the order of their beats, and
\* one stored in another order (the file is taken as it is)
EditorCharts ==
    { [notes |-> << NoteEntry(2000000, "Tap"), NoteEntry(8000000, "Tap") >>,
       path_segments |-> << [kind |-> "CatmullRom", points |-> << <<1, 1>> >>] >>,
       events |-> << [beat |-> 8000000, event_type |-> "Flash"] >>,
       timing_points |-> << [beat |-> 0, bpm |-> 120] >>],
      [notes |-> << NoteEntry(8000000, "Tap"), NoteEntry(2000000, "Tap"),
                    NoteEntry(16000000, "Tap") >>,
       path_segments |-> <<>>,
       events |-> <<>>,
       timing_points |-> << [beat |-> 0, bpm |-> 120] >>] }

\* an EditorAction; the fields a kind does not have hold these
NoAction ==
    [kind |-> "None", index |-> 0, segment |-> 0, note |-> NoteEntry(0, "Tap"),
     old |-> NoteEntry(0, "Tap"), point |-> <<0, 0>>, old_pos |-> <<0, 0>>]

InsertAt(s, k, e) == SubSeq(s, 1, k) \o << e >> \o SubSeq(s, k + 1, Len(s))

\* the points of a CatmullRom segment changed by f, any other segment and a
\* missing one left alone
WithPoints(chart, segment, f(_)) ==
    IF segment < Len(chart.path_segments)
       /\ chart.path_segments[segment + 1].kind = "CatmullRom"
    THEN [chart EXCEPT !.path_segments[segment + 1].points = f(@)]
    ELSE chart

\* EditorAction::apply: the charts it can leave (one, but for an insertion
\* into an unsorted list, where the binary search decides)
apply(a, chart) ==
    CASE a.kind = "AddNote" ->
           {[chart EXCEPT !.notes = InsertAt(@, pos, a.note)] :
               pos \in PartitionPoints(chart.notes, a.note.beat)}
      [] a.kind = "RemoveNote" ->
           {IF a.index < Len(chart.notes)
            THEN [chart EXCEPT !.notes = RemoveAt(@, a.index + 1)] ELSE chart}
      [] a.kind = "ModifyNote" ->
           {IF a.index < Len(chart.notes)
            THEN [chart EXCEPT !.notes[a.index + 1] = a.note] ELSE chart}
      [] a.kind = "AddPathPoint" ->
           {WithPoints(chart, a.segment, LAMBDA pts : Append(pts, a.point))}
      [] a.kind = "RemovePathPoint" ->
           {WithPoints(chart, a.segment,
                       LAMBDA pts : IF a.index < Len(pts)
                                    THEN RemoveAt(pts, a.index + 1) ELSE pts)}
      [] a.kind = "MovePathPoint" ->
           {WithPoints(chart, a.segment,
                       LAMBDA pts : IF a.index < Len(pts)
                                    THEN [pts EXCEPT ![a.index + 1] = a.point] ELSE pts)}
      [] a.kind = "AddEvent" ->
           {[chart EXCEPT !.events = InsertAt(@, pos, a.note)] :
               pos \in PartitionPoints(chart.events, a.note.beat)}
      [] a.kind = "RemoveEvent" ->
           {IF a.index < Len(chart.events)
            THEN [chart EXCEPT !.events = RemoveAt(@, a.index + 1)] ELSE chart}
      [] a.kind = "ModifyTimingPoint" ->
           {IF a.index < Len(chart.timing_points)
            THEN [chart EXCEPT !.timing_points[a.index + 1] = a.note] ELSE chart}

\* iter().position(|n| (n.beat - beat).abs() < 1e-6): the first entry on the
\* beat, counted from one, or zero
FirstAtBeat(s, beat) ==
    LET at == {i \in 1..Len(s) : Abs(s[i].beat - beat) < 2}
    IN IF at = {} THEN 0 ELSE CHOOSE i \in at : \A j \in at : i <= j

\* EditorAction::undo
undo(a, chart) ==
    CASE a.kind = "AddNote" ->
           LET pos == FirstAtBeat(chart.notes, a.note.beat)
           IN IF pos > 0 THEN [chart EXCEPT !.notes = RemoveAt(@, pos)] ELSE chart
      [] a.kind = "RemoveNote" -> [chart EXCEPT !.notes = InsertAt(@, a.index, a.note)]
      [] a.kind = "ModifyNote" ->
           IF a.index < Len(chart.notes)
           THEN [chart EXCEPT !.notes[a.index + 1] = a.old] ELSE chart
      [] a.kind = "AddPathPoint" ->
           WithPoints(chart, a.segment, LAMBDA pts : SubSeq(pts, 1, Len(pts) - 1))
      [] a.kind = "RemovePathPoint" ->
           WithPoints(chart, a.segment, LAMBDA pts : InsertAt(pts, a.index, a.point))
      [] a.kind = "MovePathPoint" ->
           WithPoints(chart, a.segment,
                      LAMBDA pts : IF a.index < Len(pts)
                                   THEN [pts EXCEPT ![a.index + 1] = a.old_pos] ELSE pts)
      [] a.kind = "AddEvent" ->
           LET pos == FirstAtBeat(chart.events, a.note.beat)
           IN IF pos > 0 THEN [chart EXCEPT !.events = RemoveAt(@, pos)] ELSE chart
      [] a.kind = "RemoveEvent" -> [chart EXCEPT !.events = InsertAt(@, a.index, a.note)]
      [] a.kind = "ModifyTimingPoint" ->
           IF a.index < Len(chart.timing_points)
           THEN [chart EXCEPT !.timing_points[a.index + 1] = a.old] ELSE chart

\* the actions handle_editor_input builds: Delete removes a selected note,
\* Enter places a note of the brush at the cursor, a ctrl-click in path mode
\* adds a control point to the first segment
ActionsBuilt(chart) ==
    {[NoAction EXCEPT !.kind = "RemoveNote", !.index = i - 1, !.note = chart.notes[i]] :
        i \in 1..Len(chart.notes)}
    \cup {[NoAction EXCEPT !.kind = "AddNote", !.note = NoteEntry(b, t)] :
            b \in EditorBeats, t \in Brushes}
    \cup (IF chart.path_segments = <<>> THEN {}
          ELSE {[NoAction EXCEPT !.kind = "AddPathPoint", !.segment = 0, !.point = p] :
                  p \in ClickPoints})

\* setup_editor: EditorState::new
InitEditor ==
    /\ GameAtRest
    /\ gen = NoGen
    /\ \E chart \in EditorCharts :
          editor = [open |-> TRUE, chart |-> chart, undo_stack |-> <<>>,
                    redo_stack |-> <<>>, edits |-> 0,
                    last |-> "open", before |-> chart]

\* EditorState::execute
Execute ==
    /\ editor.edits < MaxEdits
    /\ \E a \in ActionsBuilt(editor.chart) : \E after \in apply(a, editor.chart) :
          editor' = [editor EXCEPT !.chart = after,
                                   !.undo_stack = Append(@, a),
                                   !.redo_stack = <<>>,
                                   !.edits = @ + 1,
                                   !.last = "execute", !.before = editor.chart]
    /\ UNCHANGED <<cvars, pvars, svars, gen>>

\* EditorState::undo
Undo ==
    /\ editor.undo_stack # <<>>
    /\ LET a == editor.undo_stack[Len(editor.undo_stack)]
       IN editor' = [editor EXCEPT !.chart = undo(a, @),
                                   !.undo_stack = SubSeq(@, 1, Len(@) - 1),
                                   !.redo_stack = Append(@, a),
                                   !.last = "undo", !.before = editor.chart]
    /\ UNCHANGED <<cvars, pvars, svars, gen>>

\* EditorState::redo
Redo ==
    /\ editor.redo_stack # <<>>
    /\ LET a == editor.redo_stack[Len(editor.redo_stack)]
       IN \E after \in apply(a, editor.chart) :
             editor' = [editor EXCEPT !.chart = after,
                                      !.redo_stack = SubSeq(@, 1, Len(@) - 1),
                                      !.undo_stack = Append(@, a),
                                      !.last = "redo", !.before = editor.chart]
    /\ UNCHANGED <<cvars, pvars, svars, gen>>

\* a ctrl-click in path mode on a chart without a path: the first segment is
\* pushed into the chart with the clicked point, and no action is recorded
FirstSegment ==
    /\ editor.chart.path_segments = <<>>
    /\ \E p \in ClickPoints :
          editor' = [editor EXCEPT
                        !.chart.path_segments = << [kind |-> "CatmullRom", points |-> << p >>] >>,
                        !.last = "direct", !.before = editor.chart]
    /\ UNCHANGED <<cvars, pvars, svars, gen>>

NextEditor == Execute \/ Undo \/ Redo \/ FirstSegment

SpecEditor == InitEditor /\ [][NextEditor]_vars

(***************************************************************************)
(* The editor's claim                                                      *)
(***************************************************************************)
C29_Step ==
    /\ (editor.last = "execute" /\ editor'.last = "undo") =>
          /\ editor'.chart.notes = editor.before.notes
          /\ editor'.chart.path_segments = editor.before.path_segments
          /\ editor'.chart.events = editor.before.events
    /\ (editor.last = "undo" /\ editor'.last = "redo") =>
          editor'.chart = editor.before
    /\ (editor'.last = "execute" /\ editor'.edits = editor.edits + 1) =>
          editor'.redo_stack = <<>>
\* C29: every editor action is reversible: an undo right after an execute
\* restores exactly the notes, path points and events of before, a redo
\* right after an undo restores the chart of after the action, and an
\* execute empties the redo stack.
C29_Reversible == [][C29_Step]_vars

(***************************************************************************)
(* Songs played to their end: short charts, frames until the song-end      *)
(* check has fired or the time is up                                       *)
(***************************************************************************)
EndMaxTime == 88

\* an AdLib before a tap; a hold long before a tap
EndCharts ==
    { [notes |-> << AdLib(8), Tap(16) >>, look_ahead_beats |-> 10, travel_beats |-> 30,
       player |-> { {}, {"Tap"} }],
      [notes |-> << Hold(8, 16), Tap(200) >>, look_ahead_beats |-> 10, travel_beats |-> 30,
       player |-> { {}, {"Tap"} }] }
InitEnd == InitPlayOn(EndCharts)

EndConductor ==
    /\ Stage("UpdateConductor", "SpawnNotes")
    /\ next_state = "Unchanged"
    /\ FrameInSync(EndMaxTime)
    /\ UNCHANGED <<svars, tvars, screen, queue, player, alive, hold_state, beat_count,
                   pressed, changes, inputs, scratch_prev, detector, results, feedback,
                   score, judged>>

NextEnd ==
    \/ EndConductor
    \/ SpawnNotes
    \/ ReadInput
    \/ CheckHits
    \/ CheckHolds
    \/ DespawnMissed
    \/ UpdateScore
    \/ Render

SpecEnd == InitEnd /\ [][NextEnd]_vars

(***************************************************************************)
(* The end of a song, the score state of a song, the judgments of a note   *)
(***************************************************************************)
C25_AllGone ==
    /\ Len(queue.notes) > 0
    /\ queue.next_index = Len(queue.notes)
    /\ alive = {}
    /\ feedback = {}
    /\ results = <<>>
C27_FreshScore ==
    [][(screen # "Playing" /\ screen' = "Playing") =>
          /\ "ScoreState" \in resources'
          /\ "NoteQueue" \in resources'
          /\ score' = [score |-> 0, chain |-> 0, max_chain |-> 0, great_count |-> 0,
                       cool_count |-> 0, good_count |-> 0, miss_count |-> 0,
                       total_notes |-> Len(queue'.notes)]
          /\ Len(queue'.notes) = Len(QueueNotes(SelectedChart.notes)')]_vars

C28_Quota(id) == IF NoteOf(id).kind = "Hold" THEN 2 ELSE 1
C28_Step ==
    \A id \in NoteIds :
        /\ Len(judged'[id]) <= C28_Quota(id)
        /\ (id \notin alive /\ judged'[id] # judged[id]) => FALSE
        /\ (judged'[id] # judged[id]) =>
              (Len(judged'[id]) = Len(judged[id]) + 1
               \/ (stage = "DespawnMissed" /\ NoteOf(id).kind = "Hold"
                   /\ judged[id] = <<>> /\ judged'[id] = << "Miss", "Miss" >>))
\* C28: over its lifetime no spawned note produces more judgments than its
\* quota, one for a note that is not a hold and two (head and tail) for a
\* hold; a step judges a live note only, once, or twice when the miss
\* detection passes a hold that was never hit.
C28_JudgedWithinQuota == [][C28_Step]_vars
C28_Witness ==
    /\ \E id \in NoteIds :
          NoteOf(id).kind = "Hold" /\ id \notin alive /\ Len(judged[id]) = 2
          /\ judged[id][1] # "Miss"
    /\ \E id \in NoteIds :
          NoteOf(id).kind # "Hold" /\ id \notin alive /\ Len(judged[id]) = 1
====
